---------------------------- MODULE Spec2Model ----------------------------
(***************************************************************************)
(* A model of the Zarr format 2 array metadata document                    *)
(* (src/src/zarr/core/metadata/v2.py), of the data type registry used by   *)
(* src/tests/test_dtype.py, and of the configuration store                 *)
(* (src/src/zarr/core/config.py).                                          *)
(*                                                                         *)
(* Python values are tagged records, so that values of different Python    *)
(* types can be told apart: a field k names the Python type.  Strings that *)
(* are taken apart or built (chunk keys) are sequences of one-character    *)
(* strings; strings that are only compared are TLA+ strings.               *)
(***************************************************************************)
EXTENDS Integers, Sequences, FiniteSets, TLC

VARIABLES
    m,          \* the metadata document the caller holds: <<>> or <<doc>>
    call,       \* the last call on the metadata API and its arguments
    result,     \* what that call returned or raised
    warnings,   \* the warnings emitted by that call, in order
    contents,   \* DataTypeRegistry.contents: the (name, class) entries, in order
    rcall,      \* the last call on the registry and its arguments
    rresult,    \* what that call returned or raised
    latest,     \* history: for each name, the class last registered under it, or ""
    overridden, \* history: the (name, class) entries a later register replaced
    nreg,       \* history: the number of register calls made one by one
    excluded,   \* history: the class the test left out of the registry, or ""
    config,     \* Config.config: the effective value under each key
    environ,    \* the environment layer: the values of the ZARR_ variables
    files,      \* the file layer: the values of the YAML files on the paths
    ccall,      \* the last call on the configuration store
    pending,    \* the (key, value) pairs a set in progress has yet to assign
    before,     \* history: the content when the set in progress began
    seen,       \* what a reader thread read last
    data_type_registry, \* the process-wide registry: contents and lazy_load_list
    sys_path,   \* whether the directory of the entry point package is on sys.path
    pcall,      \* the last call on the process-wide registry or on a wrapper class
    presult,    \* what that call returned or raised
    ncollect    \* history: the number of _collect_entrypoints calls made

mvars == <<m, call, result, warnings>>
rvars == <<contents, rcall, rresult, latest, overridden, nreg, excluded>>
cvars == <<config, environ, files, ccall, pending, before, seen>>
pvars == <<data_type_registry, sys_path, pcall, presult, ncollect>>

(***************************************************************************)
(* Bounds of the model.                                                    *)
(***************************************************************************)
\* the largest number of dimensions of a shape, chunk shape or chunk coordinate
MaxDim == 2
\* the largest chunk coordinate (two decimal digits, so that "1.11" and "11.1" occur)
MaxCoord == 11

(***************************************************************************)
(* Python values.                                                          *)
(***************************************************************************)
\* a shape-like input: an int n, or an iterable s of ints
IntShape(n) == [k |-> "int", n |-> n, s |-> <<>>]
SeqShape(s) == [k |-> "seq", n |-> 0, s |-> s]

\* a numcodecs codec object / its configuration dict / some other object.
\* checksum is "True", "False" or "absent" (the key is not in the dict)
Codec(id, checksum) == [k |-> "codec", id |-> id, checksum |-> checksum]
CodecDict(id, checksum) == [k |-> "dict", id |-> id, checksum |-> checksum]
PyNone == [k |-> "none", id |-> "", checksum |-> "absent"]
PyOther == [k |-> "other", id |-> "", checksum |-> "absent"]

\* a filters input: None, an iterable of items, a single codec, another object
FiltersNone == [k |-> "none", items |-> <<>>]
FiltersList(items) == [k |-> "iter", items |-> items]
FiltersCodec(c) == [k |-> "codec", items |-> <<c>>]
FiltersOther == [k |-> "other", items |-> <<>>]

\* a fill value: None, or a scalar of the Python type k (int, str, bytes) or the
\* numpy type k (int32, str_, void) with payload n (a number) or s (the
\* character codes of a str, the bytes of a bytes or void); a complex number
\* (Python complex, numpy complex64) has s = <<real, imag>>, a tuple of numbers
\* has them in s, and a numpy array of complex numbers has s = <<real, imag,
\* real, imag, ...>>
FillNone == [k |-> "none", n |-> 0, s |-> <<>>]
FillInt(n) == [k |-> "int", n |-> n, s |-> <<>>]
FillStr(s) == [k |-> "str", n |-> 0, s |-> s]
FillBytes(s) == [k |-> "bytes", n |-> 0, s |-> s]
NpInt32(n) == [k |-> "int32", n |-> n, s |-> <<>>]
NpStr(s) == [k |-> "str_", n |-> 0, s |-> s]
NpVoid(s) == [k |-> "void", n |-> 0, s |-> s]
FillComplex(re, im) == [k |-> "complex", n |-> 0, s |-> <<re, im>>]
FillTuple(s) == [k |-> "tuple", n |-> 0, s |-> s]
NpComplex64(re, im) == [k |-> "complex64", n |-> 0, s |-> <<re, im>>]
NpArray(s) == [k |-> "ndarray", n |-> 0, s |-> s]

\* the other scalars of the wrappers and their JSON values: booleans (n is 0
\* or 1), 8-bit integers, floats (n the value of a finite float; s the
\* characters of "NaN", "Infinity" or "-Infinity" otherwise), byte strings,
\* timestamps (n the offset from the epoch in the unit; s the characters of
\* "NaT" for not-a-time)
PyBool(b) == [k |-> "bool", n |-> IF b THEN 1 ELSE 0, s |-> <<>>]
PyFloat(n) == [k |-> "float", n |-> n, s |-> <<>>]
NpBool(b) == [k |-> "bool_", n |-> IF b THEN 1 ELSE 0, s |-> <<>>]
NpInt8(n) == [k |-> "int8", n |-> n, s |-> <<>>]
NpFloat64(n) == [k |-> "float64", n |-> n, s |-> <<>>]
NpBytes(s) == [k |-> "bytes_", n |-> 0, s |-> s]
NpDateTime64(n) == [k |-> "datetime64", n |-> n, s |-> <<>>]
NaN == [k |-> "float64", n |-> 0, s |-> <<78, 97, 78>>]
Infinity == [k |-> "float64", n |-> 0, s |-> <<73, 110, 102, 105, 110, 105, 116, 121>>]
NaT == [k |-> "datetime64", n |-> 0, s |-> <<78, 97, 84>>]

\* an attributes input: None, a dict with string keys (its key set), another object
AttrsNone == [k |-> "none", keys |-> {}]
AttrsDict(keys) == [k |-> "dict", keys |-> keys]
AttrsOther == [k |-> "other", keys |-> {}]


\* a dtype argument: a DTypeWrapper instance of the class cls wrapping a numpy
\* dtype of the given kind, or an object that is no DTypeWrapper (here: a bare
\* numpy dtype)
Wrapper(cls, kind, size) == [k |-> "wrapper", cls |-> cls, kind |-> kind, size |-> size]
BareDType(kind, size) == [k |-> "npdtype", cls |-> "", kind |-> kind, size |-> size]

Int32 == Wrapper("Int32", "i", 4)
FixedLengthUnicode == Wrapper("FixedLengthUnicode", "U", 1)
FixedLengthBytes == Wrapper("FixedLengthBytes", "V", 2)
Complex64 == Wrapper("Complex64", "c", 8)
Bool == Wrapper("Bool", "b", 1)
Int8 == Wrapper("Int8", "i", 1)
Float64 == Wrapper("Float64", "f", 8)
FixedLengthAscii == Wrapper("FixedLengthAscii", "S", 4)
DateTime64 == Wrapper("DateTime64", "M", 8)

(***************************************************************************)
(* What a call returns or raises.  status is "ok" or the exception class;  *)
(* err names the check that failed; for the shape-mismatch error l_chunks  *)
(* and l_shape are the two lengths its message names (-1 otherwise).       *)
(***************************************************************************)
Raise(exc, err) ==
    [status |-> exc, err |-> err, l_chunks |-> -1, l_shape |-> -1,
     doc |-> <<>>, key |-> <<>>, dict |-> <<>>]
RaiseMismatch(lc, ls) ==
    [status |-> "ValueError", err |-> "shape_mismatch", l_chunks |-> lc, l_shape |-> ls,
     doc |-> <<>>, key |-> <<>>, dict |-> <<>>]
ReturnDoc(d) ==
    [status |-> "ok", err |-> "", l_chunks |-> -1, l_shape |-> -1,
     doc |-> <<d>>, key |-> <<>>, dict |-> <<>>]
ReturnKey(s) ==
    [status |-> "ok", err |-> "", l_chunks |-> -1, l_shape |-> -1,
     doc |-> <<>>, key |-> s, dict |-> <<>>]
ReturnDict(d) ==
    [status |-> "ok", err |-> "", l_chunks |-> -1, l_shape |-> -1,
     doc |-> <<>>, key |-> <<>>, dict |-> <<d>>]
NoResult ==
    [status |-> "none", err |-> "", l_chunks |-> -1, l_shape |-> -1,
     doc |-> <<>>, key |-> <<>>, dict |-> <<>>]

(***************************************************************************)
(* The parse functions of the constructor.  Each returns                   *)
(* [ok |-> TRUE, v |-> parsed value] or [ok |-> FALSE, exc |-> class].     *)
(***************************************************************************)
\* zarr.core.common.parse_shapelike: an int becomes a 1-tuple, an iterable of
\* ints a tuple; a negative entry is a ValueError
parse_shapelike(data) ==
    IF data.k = "int"
    THEN IF data.n < 0 THEN [ok |-> FALSE, exc |-> "ValueError", v |-> <<>>]
         ELSE [ok |-> TRUE, exc |-> "", v |-> <<data.n>>]
    ELSE IF \E i \in 1..Len(data.s) : data.s[i] < 0
         THEN [ok |-> FALSE, exc |-> "ValueError", v |-> <<>>]
         ELSE [ok |-> TRUE, exc |-> "", v |-> data.s]

\* numcodecs.get_codec: the codec object a configuration dict describes; a
\* missing checksum key means the codec's default, checksum=False
get_codec(d) ==
    Codec(d.id, IF d.checksum = "absent" /\ d.id = "zstd" THEN "False" ELSE d.checksum)

\* Codec.get_config: the configuration dict of a codec object
get_config(c) == CodecDict(c.id, c.checksum)

parse_compressor(data) ==
    IF data.k = "none" \/ data.k = "codec" THEN [ok |-> TRUE, exc |-> "", v |-> data]
    ELSE IF data.k = "dict" THEN [ok |-> TRUE, exc |-> "", v |-> get_codec(data)]
    ELSE [ok |-> FALSE, exc |-> "ValueError", v |-> PyNone]

parse_indexing_order(data) ==
    IF data \in {"C", "F"} THEN [ok |-> TRUE, exc |-> "", v |-> data]
    ELSE [ok |-> FALSE, exc |-> "ValueError", v |-> ""]

\* zarr.core.chunk_key_encodings.parse_separator
parse_separator(data) ==
    IF data \in {".", "/"} THEN [ok |-> TRUE, exc |-> "", v |-> data]
    ELSE [ok |-> FALSE, exc |-> "ValueError", v |-> ""]

\* the loop of parse_filters over an iterable: the codecs collected so far
RECURSIVE filters_loop(_)
filters_loop(items) ==
    IF items = <<>> THEN [ok |-> TRUE, out |-> <<>>]
    ELSE LET val == Head(items)
             rest == filters_loop(Tail(items))
         IN  IF val.k = "codec"
             THEN [ok |-> rest.ok, out |-> <<val>> \o rest.out]
             ELSE IF val.k = "dict"
             THEN [ok |-> rest.ok, out |-> <<get_codec(val)>> \o rest.out]
             ELSE [ok |-> FALSE, out |-> <<>>]

\* the stored filters are [k |-> "none"] (None) or [k |-> "tuple", items |-> codecs]
FiltersTuple(items) == [k |-> "tuple", items |-> items]

\* parse_filters keeping an empty iterable as an empty tuple
parse_filters_keep_empty(data) ==
    IF data.k = "none" THEN [ok |-> TRUE, exc |-> "", v |-> FiltersNone]
    ELSE IF data.k \in {"iter", "tuple"}
    THEN LET r == filters_loop(data.items)
         IN  IF ~r.ok THEN [ok |-> FALSE, exc |-> "TypeError", v |-> FiltersNone]
             ELSE [ok |-> TRUE, exc |-> "", v |-> FiltersTuple(r.out)]
    ELSE IF data.k = "codec" THEN [ok |-> TRUE, exc |-> "", v |-> FiltersTuple(data.items)]
    ELSE [ok |-> FALSE, exc |-> "TypeError", v |-> FiltersNone]

parse_filters(data) ==
    IF data.k = "none" THEN [ok |-> TRUE, exc |-> "", v |-> FiltersNone]
    ELSE IF data.k \in {"iter", "tuple"}
    THEN LET r == filters_loop(data.items)
         IN  IF ~r.ok THEN [ok |-> FALSE, exc |-> "TypeError", v |-> FiltersNone]
             ELSE IF Len(r.out) = 0 THEN [ok |-> TRUE, exc |-> "", v |-> FiltersNone]
             ELSE [ok |-> TRUE, exc |-> "", v |-> FiltersTuple(r.out)]
    ELSE IF data.k = "codec" THEN [ok |-> TRUE, exc |-> "", v |-> FiltersTuple(data.items)]
    ELSE [ok |-> FALSE, exc |-> "TypeError", v |-> FiltersNone]

\* zarr.core.metadata.common.parse_attributes: None becomes the empty dict
parse_attributes(data) ==
    IF data.k = "none" THEN [ok |-> TRUE, exc |-> "", v |-> AttrsDict({})]
    ELSE IF data.k = "dict" THEN [ok |-> TRUE, exc |-> "", v |-> data]
    ELSE [ok |-> FALSE, exc |-> "TypeError", v |-> AttrsNone]


\* np.zeros((), dtype=dtype)[()]: the canonical zero scalar of a dtype
np_zeros(dtype) ==
    IF dtype.kind = "i" THEN NpInt32(0)
    ELSE IF dtype.kind = "U" THEN NpStr(<<>>)
    ELSE IF dtype.kind = "c" THEN NpComplex64(0, 0)
    ELSE NpVoid([i \in 1..dtype.size |-> 0])

\* np.array(fill_value, dtype=dtype)[()], and for bytes and an opaque dtype
\* np.array(fill_value, dtype=dtype.str).view(dtype)[()]: the cast of a scalar
\* to a dtype, which fails for a scalar the dtype cannot hold.  A tuple of
\* numbers is array-like: np.array makes a 1-d array of it, one element per
\* number, and indexing a 1-d array with () gives the array itself.
np_cast(fill_value, dtype) ==
    IF dtype.kind = "i"
    THEN IF fill_value.k \in {"int", "int32", "float", "bool"} /\ fill_value.s = <<>>
         THEN [ok |-> TRUE, v |-> NpInt32(fill_value.n)]
         ELSE [ok |-> FALSE, v |-> FillNone]
    ELSE IF dtype.kind = "c"
    THEN IF fill_value.k \in {"int", "int32", "float", "bool"} /\ fill_value.s = <<>>
         THEN [ok |-> TRUE, v |-> NpComplex64(fill_value.n, 0)]
         ELSE IF fill_value.k \in {"complex", "complex64"}
         THEN [ok |-> TRUE, v |-> NpComplex64(fill_value.s[1], fill_value.s[2])]
         ELSE IF fill_value.k = "tuple"
         THEN [ok |-> TRUE,
               v |-> NpArray([i \in 1..(2 * Len(fill_value.s)) |->
                                IF i % 2 = 1 THEN fill_value.s[(i + 1) \div 2] ELSE 0])]
         ELSE [ok |-> FALSE, v |-> FillNone]
    ELSE IF fill_value.k \in {"bytes", "void"} /\ Len(fill_value.s) = dtype.size
         THEN [ok |-> TRUE, v |-> NpVoid(fill_value.s)]
         ELSE [ok |-> FALSE, v |-> FillNone]

\* fill_value == 0 of a scalar: a number (an int, a float, a bool, a complex)
\* equals 0 by its value; a str, a bytes or a tuple never equals 0
is_zero(fill_value) ==
    \/ /\ fill_value.k \in {"int", "int8", "int32", "float", "float64", "bool", "bool_"}
       /\ fill_value.n = 0 /\ fill_value.s = <<>>
    \/ fill_value.k \in {"complex", "complex64"} /\ fill_value.s = <<0, 0>>

\* parse_fill_value that looks at a text dtype before it compares with 0
parse_fill_value_text_first(fill_value, dtype) ==
    IF fill_value.k = "none"
    THEN [ok |-> TRUE, exc |-> "", v |-> fill_value]
    ELSE IF dtype.kind = "U"
    THEN IF fill_value.k \notin {"str", "str_"}
         THEN [ok |-> FALSE, exc |-> "ValueError", v |-> FillNone]
         ELSE [ok |-> TRUE, exc |-> "", v |-> fill_value]
    ELSE IF fill_value.k # "void" /\ is_zero(fill_value)
    THEN [ok |-> TRUE, exc |-> "", v |-> np_zeros(dtype)]
    ELSE LET c == np_cast(fill_value, dtype)
         IN  IF c.ok THEN [ok |-> TRUE, exc |-> "", v |-> c.v]
             ELSE [ok |-> FALSE, exc |-> "ValueError", v |-> FillNone]

parse_fill_value(fill_value, dtype) ==
    IF fill_value.k = "none"
    THEN [ok |-> TRUE, exc |-> "", v |-> fill_value]
    ELSE IF fill_value.k # "void" /\ is_zero(fill_value)
    THEN [ok |-> TRUE, exc |-> "", v |-> np_zeros(dtype)]
    ELSE IF dtype.kind = "U"
    THEN IF fill_value.k \notin {"str", "str_"}
         THEN [ok |-> FALSE, exc |-> "ValueError", v |-> FillNone]
         ELSE [ok |-> TRUE, exc |-> "", v |-> fill_value]
    ELSE LET c == np_cast(fill_value, dtype)
         IN  IF c.ok THEN [ok |-> TRUE, exc |-> "", v |-> c.v]
             ELSE [ok |-> FALSE, exc |-> "ValueError", v |-> FillNone]

\* parse_metadata with the length check left out
parse_metadata_unchecked(data) == ReturnDoc(data)

\* parse_metadata: the consistency check of a document whose fields are set
parse_metadata(data) ==
    IF Len(data.chunks) # Len(data.shape)
    THEN RaiseMismatch(Len(data.chunks), Len(data.shape))
    ELSE ReturnDoc(data)

\* a constructor that compares the lengths of shape and chunks as soon as both
\* are parsed
init_lengths_first(a) ==
    LET shape_parsed == parse_shapelike(a.shape)
        chunks_parsed == parse_shapelike(a.chunks)
        compressor_parsed == parse_compressor(a.compressor)
        order_parsed == parse_indexing_order(a.order)
        dimension_separator_parsed == parse_separator(a.dimension_separator)
        filters_parsed == parse_filters(a.filters)
        fill_value_parsed == parse_fill_value(a.fill_value, a.dtype)
        attributes_parsed == parse_attributes(a.attributes)
    IN  IF ~shape_parsed.ok THEN Raise(shape_parsed.exc, "shape")
        ELSE IF ~chunks_parsed.ok THEN Raise(chunks_parsed.exc, "chunks")
        ELSE IF Len(chunks_parsed.v) # Len(shape_parsed.v)
             THEN RaiseMismatch(Len(chunks_parsed.v), Len(shape_parsed.v))
        ELSE IF a.dtype.k # "wrapper" THEN Raise("TypeError", "dtype")
        ELSE IF ~compressor_parsed.ok THEN Raise(compressor_parsed.exc, "compressor")
        ELSE IF ~order_parsed.ok THEN Raise(order_parsed.exc, "order")
        ELSE IF ~dimension_separator_parsed.ok
             THEN Raise(dimension_separator_parsed.exc, "dimension_separator")
        ELSE IF ~filters_parsed.ok THEN Raise(filters_parsed.exc, "filters")
        ELSE IF ~fill_value_parsed.ok THEN Raise(fill_value_parsed.exc, "fill_value")
        ELSE IF ~attributes_parsed.ok THEN Raise(attributes_parsed.exc, "attributes")
        ELSE parse_metadata(
                 [shape |-> shape_parsed.v,
                  dtype |-> a.dtype,
                  chunks |-> chunks_parsed.v,
                  compressor |-> compressor_parsed.v,
                  order |-> order_parsed.v,
                  dimension_separator |-> dimension_separator_parsed.v,
                  filters |-> filters_parsed.v,
                  fill_value |-> fill_value_parsed.v,
                  attributes |-> attributes_parsed.v,
                  zarr_format |-> 2])

(***************************************************************************)
(* ArrayV2Metadata.__init__: the fields are parsed one after the other,    *)
(* the first failure raises; then the fields are set and parse_metadata    *)
(* checks the document.                                                    *)
(***************************************************************************)
ArrayV2Metadata(a) ==
    LET shape_parsed == parse_shapelike(a.shape)
        chunks_parsed == parse_shapelike(a.chunks)
        compressor_parsed == parse_compressor(a.compressor)
        order_parsed == parse_indexing_order(a.order)
        dimension_separator_parsed == parse_separator(a.dimension_separator)
        filters_parsed == parse_filters(a.filters)
        fill_value_parsed == parse_fill_value(a.fill_value, a.dtype)
        attributes_parsed == parse_attributes(a.attributes)
    IN  IF ~shape_parsed.ok THEN Raise(shape_parsed.exc, "shape")
        ELSE IF ~chunks_parsed.ok THEN Raise(chunks_parsed.exc, "chunks")
        ELSE IF a.dtype.k # "wrapper" THEN Raise("TypeError", "dtype")
        ELSE IF ~compressor_parsed.ok THEN Raise(compressor_parsed.exc, "compressor")
        ELSE IF ~order_parsed.ok THEN Raise(order_parsed.exc, "order")
        ELSE IF ~dimension_separator_parsed.ok
             THEN Raise(dimension_separator_parsed.exc, "dimension_separator")
        ELSE IF ~filters_parsed.ok THEN Raise(filters_parsed.exc, "filters")
        ELSE IF ~fill_value_parsed.ok THEN Raise(fill_value_parsed.exc, "fill_value")
        ELSE IF ~attributes_parsed.ok THEN Raise(attributes_parsed.exc, "attributes")
        ELSE parse_metadata(
                 [shape |-> shape_parsed.v,
                  dtype |-> a.dtype,
                  chunks |-> chunks_parsed.v,
                  compressor |-> compressor_parsed.v,
                  order |-> order_parsed.v,
                  dimension_separator |-> dimension_separator_parsed.v,
                  filters |-> filters_parsed.v,
                  fill_value |-> fill_value_parsed.v,
                  attributes |-> attributes_parsed.v,
                  zarr_format |-> 2])


(***************************************************************************)
(* Derived copies.                                                         *)
(***************************************************************************)
\* the keyword arguments of a copy made from the required fields alone, the
\* others left to their defaults
InitFields_required(doc) ==
    [shape |-> SeqShape(doc.shape),
     dtype |-> doc.dtype,
     chunks |-> SeqShape(doc.chunks),
     fill_value |-> doc.fill_value,
     order |-> doc.order,
     dimension_separator |-> ".",
     compressor |-> PyNone,
     filters |-> FiltersNone,
     attributes |-> AttrsNone]

\* the keyword arguments dataclasses.replace collects from the init fields of a
\* document (zarr_format has init=False and is left out)
InitFields(doc) ==
    [shape |-> SeqShape(doc.shape),
     dtype |-> doc.dtype,
     chunks |-> SeqShape(doc.chunks),
     fill_value |-> doc.fill_value,
     order |-> doc.order,
     dimension_separator |-> doc.dimension_separator,
     compressor |-> doc.compressor,
     filters |-> doc.filters,
     attributes |-> doc.attributes]

\* update_shape as a field-replaced copy that does not go through __init__
update_shape_unchecked(doc, shape) == ReturnDoc([doc EXCEPT !.shape = shape.s])

\* update_attributes as a field-replaced copy that does not go through __init__
update_attributes_unchecked(doc, attributes) ==
    ReturnDoc([doc EXCEPT !.attributes = attributes])

\* dataclasses.replace(obj, **changes) calls obj.__class__(**kwargs), i.e. __init__
update_shape(doc, shape) ==
    ArrayV2Metadata([InitFields(doc) EXCEPT !.shape = shape])

update_attributes(doc, attributes) ==
    ArrayV2Metadata([InitFields(doc) EXCEPT !.attributes = attributes])

(***************************************************************************)
(* Chunk keys.  A str is a sequence of one-character strings.              *)
(***************************************************************************)
Digits == <<"0", "1", "2", "3", "4", "5", "6", "7", "8", "9">>

\* str(n) of an int
RECURSIVE str(_)
str(n) ==
    IF n < 0 THEN <<"-">> \o str(-n)
    ELSE IF n < 10 THEN <<Digits[n + 1]>>
    ELSE str(n \div 10) \o <<Digits[(n % 10) + 1]>>

\* sep.join(parts) of a sequence of strs
RECURSIVE join(_, _)
join(sep, parts) ==
    IF parts = <<>> THEN <<>>
    ELSE IF Len(parts) = 1 THEN parts[1]
    ELSE parts[1] \o <<sep>> \o join(sep, Tail(parts))

\* the concatenation of the parts
RECURSIVE join_no_separator(_)
join_no_separator(parts) ==
    IF parts = <<>> THEN <<>> ELSE parts[1] \o join_no_separator(Tail(parts))

\* encode_chunk_key joining the coordinates with nothing between them
encode_chunk_key_no_separator(doc, chunk_coords) ==
    LET chunk_identifier ==
            join_no_separator([i \in 1..Len(chunk_coords) |-> str(chunk_coords[i])])
    IN  IF chunk_identifier = <<>> THEN <<"0">> ELSE chunk_identifier

encode_chunk_key(doc, chunk_coords) ==
    LET chunk_identifier ==
            join(doc.dimension_separator,
                 [i \in 1..Len(chunk_coords) |-> str(chunk_coords[i])])
    IN  IF chunk_identifier = <<>> THEN <<"0">> ELSE chunk_identifier


(***************************************************************************)
(* base64 (RFC 4648) over byte values and character codes.                 *)
(***************************************************************************)
\* the character code of the base64 digit of a 6-bit value
b64_char(v) ==
    IF v < 26 THEN 65 + v
    ELSE IF v < 52 THEN 97 + (v - 26)
    ELSE IF v < 62 THEN 48 + (v - 52)
    ELSE IF v = 62 THEN 43 ELSE 47

b64_alphabet == {b64_char(v) : v \in 0..63}

\* the 6-bit value of a base64 digit
b64_val(c) == CHOOSE v \in 0..63 : b64_char(v) = c

\* base64.standard_b64encode
RECURSIVE standard_b64encode(_)
standard_b64encode(b) ==
    IF Len(b) = 0 THEN <<>>
    ELSE IF Len(b) = 1
    THEN <<b64_char(b[1] \div 4), b64_char((b[1] % 4) * 16), 61, 61>>
    ELSE IF Len(b) = 2
    THEN <<b64_char(b[1] \div 4),
           b64_char((b[1] % 4) * 16 + b[2] \div 16),
           b64_char((b[2] % 16) * 4), 61>>
    ELSE <<b64_char(b[1] \div 4),
           b64_char((b[1] % 4) * 16 + b[2] \div 16),
           b64_char((b[2] % 16) * 4 + b[3] \div 64),
           b64_char(b[3] % 64)>> \o standard_b64encode(SubSeq(b, 4, Len(b)))

\* the bytes of the quads of base64 digits, three bytes for every quad: the
\* padding "=" is read as the digit of value 0
RECURSIVE b64_quads_unpadded(_)
b64_quads_unpadded(s) ==
    IF Len(s) = 0 THEN <<>>
    ELSE LET val(c) == IF c = 61 THEN 0 ELSE b64_val(c)
         IN  <<val(s[1]) * 4 + val(s[2]) \div 16,
               (val(s[2]) % 16) * 16 + val(s[3]) \div 4,
               (val(s[3]) % 4) * 64 + val(s[4])>>
             \o b64_quads_unpadded(SubSeq(s, 5, Len(s)))

\* the bytes of the quads of base64 digits; a quad may end in one or two "="
RECURSIVE b64_quads(_)
b64_quads(s) ==
    IF Len(s) = 0 THEN <<>>
    ELSE LET a == b64_val(s[1])
             b == b64_val(s[2])
         IN  IF s[3] = 61 THEN <<a * 4 + b \div 16>>
             ELSE LET c == b64_val(s[3])
                  IN  IF s[4] = 61
                      THEN <<a * 4 + b \div 16, (b % 16) * 16 + c \div 4>>
                      ELSE <<a * 4 + b \div 16, (b % 16) * 16 + c \div 4,
                             (c % 4) * 64 + b64_val(s[4])>>
                           \o b64_quads(SubSeq(s, 5, Len(s)))

\* base64.standard_b64decode of a str: characters outside the alphabet are
\* discarded, then the padding must be correct (binascii.Error otherwise)
standard_b64decode(s) ==
    LET t == SelectSeq(s, LAMBDA c : c \in b64_alphabet \/ c = 61)
        digits == SelectSeq(t, LAMBDA c : c # 61)
        pad == Len(t) - Len(digits)
        well_padded ==
            /\ Len(t) % 4 = 0
            /\ pad <= 2
            /\ \A i \in 1..Len(t) : t[i] = 61 => i > Len(t) - pad
    IN  IF well_padded THEN [ok |-> TRUE, v |-> b64_quads(t)]
        ELSE [ok |-> FALSE, v |-> <<>>]

(***************************************************************************)
(* The data type wrappers, as far as the metadata document uses them.      *)
(***************************************************************************)
\* DTypeWrapper.get_name(zarr_format=2): the numpy type string
get_name(dtype) ==
    IF dtype.kind = "i" THEN "<i4"
    ELSE IF dtype.kind = "U" THEN "<U1"
    ELSE IF dtype.kind = "c" THEN "<c8"
    ELSE "|V2"

\* zarr.core.dtype.get_data_type_from_numpy of a type string
get_data_type_from_numpy(name) ==
    IF name = "<i4" THEN [ok |-> TRUE, v |-> Int32]
    ELSE IF name = "<U1" THEN [ok |-> TRUE, v |-> FixedLengthUnicode]
    ELSE IF name = "|V2" THEN [ok |-> TRUE, v |-> FixedLengthBytes]
    ELSE IF name = "<c8" THEN [ok |-> TRUE, v |-> Complex64]
    ELSE [ok |-> FALSE, v |-> Int32]

\* DTypeWrapper.to_json_value(value, zarr_format), the same for both formats:
\* boolean -> boolean, integer -> integer, float -> number, or the string
\* that names a NaN or an infinity, complex -> (real, imag), text -> the
\* string, timestamp -> the integer offset from the epoch, or null for
\* not-a-time, bytes and opaque bytes -> base64 string
to_json_value(dtype, value) ==
    IF dtype.kind = "b" THEN PyBool(value.n = 1)
    ELSE IF dtype.kind = "i" THEN FillInt(value.n)
    ELSE IF dtype.kind = "f"
    THEN IF value.s = <<>> THEN PyFloat(value.n) ELSE FillStr(value.s)
    ELSE IF dtype.kind = "U" THEN FillStr(value.s)
    ELSE IF dtype.kind = "c" THEN FillTuple(value.s)
    ELSE IF dtype.kind = "M"
    THEN IF value.s = <<>> THEN FillInt(value.n) ELSE FillNone
    ELSE FillStr(standard_b64encode(value.s))

\* DTypeWrapper.from_json_value(data, zarr_format): the scalar a JSON value
\* stands for; ok is FALSE for a JSON value of another shape
from_json_value(dtype, data) ==
    IF dtype.kind = "b"
    THEN [ok |-> data.k = "bool", v |-> NpBool(data.n = 1)]
    ELSE IF dtype.kind = "i"
    THEN [ok |-> data.k = "int",
          v |-> IF dtype.size = 1 THEN NpInt8(data.n) ELSE NpInt32(data.n)]
    ELSE IF dtype.kind = "f"
    THEN IF data.k = "str"
         THEN [ok |-> data.s \in {NaN.s, Infinity.s},
               v |-> [k |-> "float64", n |-> 0, s |-> data.s]]
         ELSE [ok |-> data.k \in {"float", "int"}, v |-> NpFloat64(data.n)]
    ELSE IF dtype.kind = "U"
    THEN [ok |-> data.k = "str", v |-> NpStr(data.s)]
    ELSE IF dtype.kind = "c"
    THEN [ok |-> data.k = "tuple" /\ Len(data.s) = 2,
          v |-> [k |-> "complex64", n |-> 0, s |-> data.s]]
    ELSE IF dtype.kind = "M"
    THEN IF data.k = "none" THEN [ok |-> TRUE, v |-> NaT]
         ELSE [ok |-> data.k = "int", v |-> NpDateTime64(data.n)]
    ELSE IF data.k = "str"
    THEN LET d == standard_b64decode(data.s)
         IN  [ok |-> d.ok,
              v |-> IF dtype.kind = "S" THEN NpBytes(d.v) ELSE NpVoid(d.v)]
    ELSE [ok |-> FALSE, v |-> FillNone]

\* np.datetime64("Y-M-DTh:m:s", "s"): the seconds since 1970-01-01T00:00:00 of
\* a date and time of the proleptic Gregorian calendar
datetime64_s(year, month, day, hour, minute, second) ==
    LET y == IF month <= 2 THEN year - 1 ELSE year
        era == y \div 400
        yoe == y - era * 400
        mp == IF month > 2 THEN month - 3 ELSE month + 9
        doy == (153 * mp + 2) \div 5 + day - 1
        doe == yoe * 365 + yoe \div 4 - yoe \div 100 + doy
        days == era * 146097 + doe - 719468
    IN  NpDateTime64(days * 86400 + hour * 3600 + minute * 60 + second)

(***************************************************************************)
(* Serialization.                                                          *)
(***************************************************************************)
FiltersJson(items) == [k |-> "list", items |-> items]

to_dict(self) ==
    LET codec_config == get_config(self.compressor)
        compressor ==
            IF self.compressor.k = "codec"
            THEN IF codec_config.id = "zstd" /\ codec_config.checksum # "True"
                 THEN [codec_config EXCEPT !.checksum = "absent"]
                 ELSE codec_config
            ELSE self.compressor
        filters ==
            IF self.filters.k # "none"
            THEN FiltersJson([i \in 1..Len(self.filters.items) |->
                                 IF self.filters.items[i].k = "codec"
                                 THEN get_config(self.filters.items[i])
                                 ELSE self.filters.items[i]])
            ELSE self.filters
        fill_value ==
            IF self.fill_value.k # "none"
            THEN to_json_value(self.dtype, self.fill_value)
            ELSE self.fill_value
    IN  [zarr_format |-> self.zarr_format,
         shape |-> self.shape,
         chunks |-> self.chunks,
         dtype |-> get_name(self.dtype),
         fill_value |-> fill_value,
         order |-> self.order,
         dimension_separator |-> self.dimension_separator,
         compressor |-> compressor,
         filters |-> filters,
         attributes |-> self.attributes]

\* to_buffer_dict: the two JSON documents that are dumped with the configured
\* indent and put into buffers of the prototype, .zarray without the
\* attributes and .zattrs with them
to_buffer_dict(self, prototype, json_indent) ==
    LET zarray_dict == to_dict(self)
    IN  [zarray |-> [key \in DOMAIN zarray_dict \ {"attributes"} |-> zarray_dict[key]],
         zattrs |-> zarray_dict.attributes,
         indent |-> json_indent,
         prototype |-> prototype]

\* get_chunk_spec: the ArraySpec of a chunk
get_chunk_spec(self, _chunk_coords, array_config, prototype) ==
    [shape |-> self.chunks,
     dtype |-> self.dtype,
     fill_value |-> self.fill_value,
     config |-> array_config,
     prototype |-> prototype]


(***************************************************************************)
(* Deserialization.  A stored document is a record of the values under its *)
(* keys and the set keys of the keys that are present (a value under an    *)
(* absent key is a placeholder and is never read).                         *)
(***************************************************************************)
parse_zarr_format(data) ==
    IF data = 2 THEN [ok |-> TRUE, exc |-> ""] ELSE [ok |-> FALSE, exc |-> "ValueError"]

\* {x.name for x in fields(cls)} | {"dtype", "chunks"}
expected ==
    {"shape", "chunks", "dtype", "fill_value", "order", "filters",
     "dimension_separator", "compressor", "attributes", "zarr_format"}
        \cup {"dtype", "chunks"}

\* the keyword arguments __init__ requires; the others have defaults
RequiredArgs == {"shape", "dtype", "chunks", "fill_value", "order"}

UserWarning == "UserWarning"

\* the empty-filters check of from_dict without its warning
empty_filters_silent(filters) ==
    IF filters.k # "none" /\ Len(filters.items) = 0
    THEN [filters |-> FiltersNone, warnings |-> <<>>]
    ELSE [filters |-> filters, warnings |-> <<>>]

\* the check of from_dict for an empty sequence of filters: None is used
\* instead and a warning is raised
empty_filters(filters) ==
    IF filters.k # "none" /\ Len(filters.items) = 0
    THEN [filters |-> FiltersNone, warnings |-> <<UserWarning>>]
    ELSE [filters |-> filters, warnings |-> <<>>]

\* the keys that reach the constructor with every key of the mapping kept
keep_all(keys) == keys

\* the keys that reach the constructor: {k: v for k, v in _data.items() if k in expected}
keep(keys) == keys \cap expected

\* the keyword parameters of __init__
InitParams ==
    {"shape", "dtype", "chunks", "fill_value", "order", "dimension_separator",
     "compressor", "filters", "attributes"}

\* data.copy(): the dict that _data is bound to, a new one and not the
\* caller's "data"
dict_copy(data) == "_data"

\* what from_dict returns or raises, and the warnings emitted on the way
from_dict_result(data) ==
    LET dtype == get_data_type_from_numpy(data.dtype)
        decode == "fill_value" \in data.keys /\ data.fill_value.k # "none"
                  /\ dtype.v.kind \in {"S", "V"}
        decoded == standard_b64decode(data.fill_value.s)
        fill_value == IF decode THEN FillBytes(decoded.v) ELSE data.fill_value
        filters == empty_filters(data.filters).filters
        warned == empty_filters(data.filters).warnings
        \* zarr_format was popped; the keys outside expected are dropped
        kept == keep(data.keys \ {"zarr_format"})
        kwargs ==
            [shape |-> data.shape,
             dtype |-> dtype.v,
             chunks |-> data.chunks,
             fill_value |-> fill_value,
             order |-> data.order,
             dimension_separator |->
                 IF "dimension_separator" \in kept THEN data.dimension_separator ELSE ".",
             compressor |-> IF "compressor" \in kept THEN data.compressor ELSE PyNone,
             filters |-> filters,
             attributes |-> IF "attributes" \in kept THEN data.attributes ELSE AttrsNone]
    IN  IF "zarr_format" \notin data.keys
        THEN [result |-> Raise("KeyError", "zarr_format"), warnings |-> <<>>]
        ELSE IF ~parse_zarr_format(data.zarr_format).ok
        THEN [result |-> Raise("ValueError", "zarr_format"), warnings |-> <<>>]
        ELSE IF "dtype" \notin data.keys
        THEN [result |-> Raise("KeyError", "dtype"), warnings |-> <<>>]
        ELSE IF ~dtype.ok
        THEN [result |-> Raise("TypeError", "dtype"), warnings |-> <<>>]
        ELSE IF decode /\ data.fill_value.k # "str"
        THEN [result |-> Raise("TypeError", "fill_value"), warnings |-> <<>>]
        ELSE IF decode /\ ~decoded.ok
        THEN [result |-> Raise("binascii.Error", "fill_value"), warnings |-> <<>>]
        ELSE IF "filters" \notin data.keys
        THEN [result |-> Raise("KeyError", "filters"), warnings |-> <<>>]
        ELSE IF data.filters.k \notin {"none", "iter"}
        THEN [result |-> Raise("TypeError", "filters"), warnings |-> <<>>]
        ELSE IF ~(kept \subseteq InitParams)
        THEN [result |-> Raise("TypeError", "unexpected"), warnings |-> warned]
        ELSE IF ~(RequiredArgs \subseteq kept)
        THEN [result |-> Raise("TypeError", "missing"), warnings |-> warned]
        ELSE [result |-> ArrayV2Metadata(kwargs), warnings |-> warned]

\* from_dict returns [result |-> what the call returns or raises,
\*                    warnings |-> the warnings emitted on the way,
\*                    data |-> the caller's mapping after the call]
from_dict(data) ==
    LET r == from_dict_result(data)
    IN  [result |-> r.result, warnings |-> r.warnings,
         data |-> IF dict_copy(data) = "data" /\ "zarr_format" \in data.keys
                  \* _data.pop("zarr_format") on the caller's own dict
                  THEN [data EXCEPT !.keys = @ \ {"zarr_format"}]
                  ELSE data]


(***************************************************************************)
(* The inputs of the calls.                                                *)
(***************************************************************************)
\* the tuples over S of length 0..n
Tuples(S, n) == UNION {[1..k -> S] : k \in 0..n}

ShapeInputs ==
    {SeqShape(s) : s \in Tuples({2}, MaxDim)} \cup {IntShape(3), SeqShape(<<-1>>)}
ChunksInputs == {SeqShape(s) : s \in Tuples({1}, MaxDim)}
DTypeInputs == {Int32, FixedLengthUnicode, FixedLengthBytes, Complex64, BareDType("i", 4)}
FillInputs ==
    {FillNone, FillInt(0), FillInt(1), FillStr(<<97>>), FillBytes(<<97, 98>>),
     FillComplex(1, 2), PyFloat(0), PyBool(FALSE)}
OrderInputs == {"C", "X"}
SeparatorInputs == {".", "/", "-"}
CompressorInputs == {PyNone, CodecDict("zstd", "absent"), PyOther}
FiltersInputs ==
    {FiltersNone, FiltersList(<<>>), FiltersList(<<CodecDict("delta", "absent")>>),
     FiltersCodec(Codec("delta", "absent")), FiltersList(<<PyOther>>)}
AttrsInputs == {AttrsNone, AttrsDict({"a"})}

InitInputs ==
    [shape : ShapeInputs, dtype : DTypeInputs, chunks : ChunksInputs,
     fill_value : FillInputs, order : OrderInputs,
     dimension_separator : SeparatorInputs, compressor : CompressorInputs,
     filters : FiltersInputs, attributes : AttrsInputs]

\* stored documents: complete ones, ones with a key missing, with an extra key
KeysInputs ==
    {expected, expected \cup {"foo"}, expected \cup {"foo", "zarr_consolidated_format"},
     expected \ {"filters"},
     expected \ {"zarr_format"},
     expected \ {"dimension_separator", "compressor", "attributes"}}

DictInputs ==
    [keys : KeysInputs, zarr_format : {2, 3},
     shape : {SeqShape(s) : s \in Tuples({2}, MaxDim)}, chunks : ChunksInputs,
     dtype : {"<i4", "<U1", "|V2", "nope"},
     fill_value : {FillNone, FillInt(0), FillInt(1), FillStr(<<97>>),
                   FillStr(<<89, 87, 73, 61>>)},
     order : {"C"}, dimension_separator : {"/"},
     compressor : {PyNone, CodecDict("zstd", "absent")},
     filters : {FiltersNone, FiltersList(<<>>),
                FiltersList(<<CodecDict("delta", "absent")>>)},
     attributes : {AttrsDict({"a"})}]

CoordInputs == Tuples({0, 1, MaxCoord}, MaxDim)

\* the dict to_dict returned, as the mapping from_dict reads: every key of the
\* document is present, a tuple of ints is an iterable of ints, a list of
\* filter configurations is an iterable of them
as_mapping(d) ==
    [keys |-> expected,
     zarr_format |-> d.zarr_format,
     shape |-> SeqShape(d.shape),
     chunks |-> SeqShape(d.chunks),
     dtype |-> d.dtype,
     fill_value |-> d.fill_value,
     order |-> d.order,
     dimension_separator |-> d.dimension_separator,
     compressor |-> d.compressor,
     filters |-> IF d.filters.k = "list" THEN FiltersList(d.filters.items) ELSE d.filters,
     attributes |-> d.attributes]

(***************************************************************************)
(* The state machine of a caller of the metadata API.                      *)
(***************************************************************************)
NoCall == [op |-> "none", args |-> <<>>]

MInit ==
    /\ m = <<>>
    /\ call = NoCall
    /\ result = NoResult
    /\ warnings = <<>>

\* ArrayV2Metadata(**a)
Construct ==
    /\ m = <<>> /\ call.op = "none"
    /\ \E a \in InitInputs :
          /\ call' = [op |-> "__init__", args |-> a]
          /\ result' = ArrayV2Metadata(a)
    /\ warnings' = <<>>
    /\ UNCHANGED <<m, rvars, cvars, pvars>>

\* ArrayV2Metadata.from_dict(data)
FromDict ==
    /\ m = <<>> /\ call.op = "none"
    /\ \E data \in DictInputs :
          /\ call' = [op |-> "from_dict", args |-> data, data |-> from_dict(data).data]
          /\ result' = from_dict(data).result
          /\ warnings' = from_dict(data).warnings
    /\ UNCHANGED <<m, rvars, cvars, pvars>>

\* m.update_shape(shape)
UpdateShape ==
    /\ m # <<>>
    /\ \E shape \in ShapeInputs :
          /\ call' = [op |-> "update_shape", args |-> shape]
          /\ result' = update_shape(m[1], shape)
    /\ warnings' = <<>>
    /\ UNCHANGED <<m, rvars, cvars, pvars>>

\* m.update_attributes(attributes)
UpdateAttributes ==
    /\ m # <<>>
    /\ \E attributes \in AttrsInputs \cup {AttrsOther} :
          /\ call' = [op |-> "update_attributes", args |-> attributes]
          /\ result' = update_attributes(m[1], attributes)
    /\ warnings' = <<>>
    /\ UNCHANGED <<m, rvars, cvars, pvars>>

\* m.to_dict()
ToDict ==
    /\ m # <<>>
    /\ call' = [op |-> "to_dict", args |-> <<>>]
    /\ result' = ReturnDict(to_dict(m[1]))
    /\ warnings' = <<>>
    /\ UNCHANGED <<m, rvars, cvars, pvars>>

\* ArrayV2Metadata.from_dict(d) of the dict d that m.to_dict() just returned
FromDictOfToDict ==
    /\ m # <<>> /\ call.op = "to_dict"
    /\ LET data == as_mapping(result.dict[1])
       IN  /\ call' = [op |-> "from_dict", args |-> data, data |-> from_dict(data).data]
           /\ result' = from_dict(data).result
           /\ warnings' = from_dict(data).warnings
    /\ UNCHANGED <<m, rvars, cvars, pvars>>

\* m.encode_chunk_key(chunk_coords)
EncodeChunkKey ==
    /\ m # <<>>
    /\ \E chunk_coords \in CoordInputs :
          /\ call' = [op |-> "encode_chunk_key", args |-> chunk_coords]
          /\ result' = ReturnKey(encode_chunk_key(m[1], chunk_coords))
    /\ warnings' = <<>>
    /\ UNCHANGED <<m, rvars, cvars, pvars>>

\* m.to_buffer_dict(prototype)
ToBufferDict ==
    /\ m # <<>>
    /\ \E prototype \in {"cpu", "gpu"} :
          /\ call' = [op |-> "to_buffer_dict", args |-> prototype]
          /\ result' = ReturnDict(to_buffer_dict(m[1], prototype, config["json_indent"]))
    /\ warnings' = <<>>
    /\ UNCHANGED <<m, rvars, cvars, pvars>>

\* m.get_chunk_spec(_chunk_coords, array_config, prototype)
GetChunkSpec ==
    /\ m # <<>>
    /\ \E _chunk_coords \in {c \in Tuples({0}, MaxDim) : Len(c) = Len(m[1].chunks)},
          array_config \in {[order |-> "C", write_empty_chunks |-> FALSE]},
          prototype \in {"cpu", "gpu"} :
          /\ call' = [op |-> "get_chunk_spec",
                       args |-> <<_chunk_coords, array_config, prototype>>]
          /\ result' = ReturnDict(get_chunk_spec(m[1], _chunk_coords, array_config,
                                                 prototype))
    /\ warnings' = <<>>
    /\ UNCHANGED <<m, rvars, cvars, pvars>>

\* the caller goes on with the document the last call returned (one whose
\* fill value is None or a scalar)
Adopt ==
    /\ result.status = "ok" /\ result.doc # <<>>
    /\ result.doc[1].fill_value.k # "ndarray"
    /\ m' = result.doc
    /\ call' = NoCall
    /\ result' = NoResult
    /\ warnings' = <<>>
    /\ UNCHANGED <<rvars, cvars, pvars>>

MNext ==
    \/ ToBufferDict
    \/ GetChunkSpec
    \/ Construct
    \/ FromDict
    \/ UpdateShape
    \/ UpdateAttributes
    \/ ToDict
    \/ FromDictOfToDict
    \/ EncodeChunkKey
    \/ Adopt

(***************************************************************************)
(* The data type registry (zarr.core.dtype.registry.DataTypeRegistry) and  *)
(* the wrapper classes, as the tests of src/tests/test_dtype.py use them.  *)
(***************************************************************************)
\* the number of register calls a test makes one by one
MaxRegisterCalls == 3

\* the wrapper classes of the model: built-in ones (members of DTYPE) ...
Builtins ==
    {"Bool", "Int8", "FixedLengthAscii", "FixedLengthUnicode", "FixedLengthBytes",
     "Structured", "DateTime64"}
\* ... and the subclasses of Bool the tests define
Subclasses == {"NewBool", "TestDataType"}
Classes == Builtins \cup Subclasses

\* the class whose from_dtype and v3 name a class has (itself, or its base class)
BaseClass(cls) == IF cls = "NewBool" \/ cls = "TestDataType" THEN "Bool" ELSE cls

\* cls._zarr_v3_name
zarr_v3_name(cls) ==
    IF cls = "TestDataType" THEN "test"
    ELSE IF BaseClass(cls) = "Bool" THEN "bool"
    ELSE IF cls = "Int8" THEN "int8"
    ELSE IF cls = "FixedLengthAscii" THEN "numpy.fixed_length_ascii"
    ELSE IF cls = "FixedLengthUnicode" THEN "numpy.fixed_length_ucs4"
    ELSE IF cls = "FixedLengthBytes" THEN "numpy.fixed_length_bytes"
    ELSE IF cls = "Structured" THEN "structured"
    ELSE "numpy.datetime64"

\* cls.dtype_cls: the class of the numpy dtypes a wrapper class wraps
dtype_cls(cls) ==
    IF BaseClass(cls) = "Bool" THEN "BoolDType"
    ELSE IF cls = "Int8" THEN "Int8DType"
    ELSE IF cls = "FixedLengthAscii" THEN "BytesDType"
    ELSE IF cls = "FixedLengthUnicode" THEN "StrDType"
    ELSE IF cls = "FixedLengthBytes" THEN "VoidDType"
    ELSE IF cls = "Structured" THEN "VoidDType"
    ELSE "DateTime64DType"

\* a numpy dtype: its class and whether it has fields (a structured dtype)
NpDType(type, fields) == [type |-> type, fields |-> fields]

\* instance.to_dtype() of the example instance of a class
to_dtype(cls) == NpDType(dtype_cls(cls), cls = "Structured")

\* the match of a class with a dtype by the dtype's class alone
check_dtype_by_class(cls, dtype) == dtype.type = dtype_cls(cls)

\* whether cls.from_dtype(dtype) succeeds: the dtype is of the class the
\* wrapper wraps; the two wrappers of void dtypes share them by their fields
check_dtype(cls, dtype) ==
    /\ dtype.type = dtype_cls(cls)
    /\ cls = "Structured" => dtype.fields
    /\ cls = "FixedLengthBytes" => ~dtype.fields

\* a JSON form of a data type: a name string, an object with a name, or a
\* list of fields
Json(form, name) == [form |-> form, name |-> name]

\* to_json that writes the format 3 form whatever the format asked for
to_json_v3_only(cls, zarr_format) ==
    IF cls = "TestDataType" THEN Json("str", "test")
    ELSE IF BaseClass(cls) = "Bool" \/ cls = "Int8"
         THEN Json("str", zarr_v3_name(cls))
         ELSE Json("object", zarr_v3_name(cls))

\* instance.to_json(zarr_format) of the example instance of a class
to_json(cls, zarr_format) ==
    IF cls = "TestDataType" THEN Json("str", "test")
    ELSE IF zarr_format = 2
    THEN IF BaseClass(cls) = "Bool" THEN Json("str", "|b1")
         ELSE IF cls = "Int8" THEN Json("str", "|i1")
         ELSE IF cls = "FixedLengthAscii" THEN Json("str", "|S4")
         ELSE IF cls = "FixedLengthUnicode" THEN Json("str", "<U4")
         ELSE IF cls = "FixedLengthBytes" THEN Json("str", "|V4")
         ELSE IF cls = "Structured" THEN Json("list", "a:<f8,b:|i1")
         ELSE Json("str", "<M8[s]")
    ELSE IF BaseClass(cls) = "Bool" \/ cls = "Int8"
         THEN Json("str", zarr_v3_name(cls))
         ELSE Json("object", zarr_v3_name(cls))

\* the numpy type strings a class accepts as its format 2 JSON form
v2_names(cls) ==
    IF BaseClass(cls) = "Bool" THEN {"|b1"}
    ELSE IF cls = "Int8" THEN {"|i1"}
    ELSE IF cls = "FixedLengthAscii" THEN {"|S1", "|S4"}
    ELSE IF cls = "FixedLengthUnicode" THEN {"<U1", "<U4", ">U1", ">U4"}
    ELSE IF cls = "FixedLengthBytes" THEN {"|V1", "|V4"}
    ELSE IF cls = "DateTime64" THEN {"<M8[s]", ">M8[s]", "<M8[ms]", ">M8[ms]"}
    ELSE {}

\* cls.check_json(data, zarr_format): whether the JSON is of the shape the
\* class writes.  Format 2: a type string of the class, a list of fields for
\* Structured.  Format 3: the bare v3 name for a class without parameters, an
\* object with the v3 name for a class with parameters.
check_json(cls, data, zarr_format) ==
    IF cls = "TestDataType" THEN data.form = "str" /\ data.name = zarr_v3_name(cls)
    ELSE IF zarr_format = 2
    THEN IF cls = "Structured" THEN data.form = "list"
         ELSE data.form = "str" /\ data.name \in v2_names(cls)
    ELSE IF BaseClass(cls) = "Bool" \/ cls = "Int8"
         THEN data.form = "str" /\ data.name = zarr_v3_name(cls)
         ELSE data.form = "object" /\ data.name = zarr_v3_name(cls)

\* what a registry call returns or raises; named is what the error message names
RReturn(cls) == [status |-> "ok", cls |-> cls, named |-> <<>>]
RRaise(exc, named) == [status |-> exc, cls |-> "", named |-> <<named>>]
RNoResult == [status |-> "none", cls |-> "", named |-> <<>>]

\* cls.from_json(data, zarr_format): the instance the JSON describes, or
\* DataTypeValidationError for a JSON the class does not write; TestDataType
\* overrides it and raises a bare ValueError
from_json(cls, data, zarr_format) ==
    IF cls = "TestDataType"
    THEN IF data = Json("str", zarr_v3_name(cls)) THEN RReturn(cls)
         ELSE [status |-> "ValueError", cls |-> "", named |-> <<>>]
    ELSE IF check_json(cls, data, zarr_format) THEN RReturn(cls)
    ELSE RRaise("DataTypeValidationError", data)

\* the index of the entry of a name in contents, 0 when there is none
IndexOf(c, name) ==
    IF \E i \in 1..Len(c) : c[i].name = name
    THEN CHOOSE i \in 1..Len(c) : c[i].name = name
    ELSE 0

\* register that keeps the entry a name already has
register_keep_first(c, name, cls) ==
    IF IndexOf(c, name) # 0 THEN c ELSE Append(c, [name |-> name, cls |-> cls])

\* DataTypeRegistry.register: unconditional insert or override
register(c, name, cls) ==
    IF IndexOf(c, name) # 0
    THEN [c EXCEPT ![IndexOf(c, name)].cls = cls]
    ELSE Append(c, [name |-> name, cls |-> cls])

\* DataTypeRegistry.get
get(c, name) ==
    IF IndexOf(c, name) # 0 THEN RReturn(c[IndexOf(c, name)].cls)
    ELSE RRaise("KeyError", name)

\* DataTypeRegistry.match_dtype: the first registered class that accepts the dtype
match_dtype(c, dtype) ==
    IF \E i \in 1..Len(c) : check_dtype(c[i].cls, dtype)
    THEN RReturn(c[CHOOSE i \in 1..Len(c) :
                       /\ check_dtype(c[i].cls, dtype)
                       /\ \A j \in 1..(i - 1) : ~check_dtype(c[j].cls, dtype)].cls)
    ELSE RRaise("ValueError", dtype)

\* DataTypeRegistry.match_json: the registered classes are tried in order; a
\* DataTypeValidationError of from_json is skipped, the first other outcome
\* (an instance, or another exception) is the outcome of the call
match_json(c, data, zarr_format) ==
    LET skipped(i) ==
            from_json(c[i].cls, data, zarr_format).status = "DataTypeValidationError"
    IN  IF \E i \in 1..Len(c) : ~skipped(i)
        THEN from_json(c[CHOOSE i \in 1..Len(c) :
                             ~skipped(i) /\ \A j \in 1..(i - 1) : skipped(j)].cls,
                       data, zarr_format)
        ELSE RRaise("ValueError", data)

\* the loop of test_match_dtype_unique: every class of DTYPE but one is
\* registered under its v3 name (classes taken in a fixed order)
RECURSIVE register_all(_, _)
register_all(c, todo) ==
    IF todo = {} THEN c
    ELSE LET cls == CHOOSE x \in todo : TRUE
         IN  register_all(register(c, zarr_v3_name(cls), cls), todo \ {cls})

Names == {"bool", "int8"}
RegisterClasses == {"Bool", "NewBool", "Int8"}
DTypeValues == {to_dtype(cls) : cls \in Builtins}
JsonValues == {to_json(cls, v) : cls \in Builtins, v \in {2, 3}}

RInit ==
    /\ contents = <<>>
    /\ rcall = [op |-> "none"]
    /\ rresult = RNoResult
    /\ latest = [n \in Names |-> ""]
    /\ overridden = {}
    /\ nreg = 0
    /\ excluded = ""

\* data_type_registry_fixture.register(name, cls)
Register ==
    /\ excluded = "" /\ nreg < MaxRegisterCalls
    /\ \E name \in Names, cls \in RegisterClasses :
          /\ contents' = register(contents, name, cls)
          /\ rcall' = [op |-> "register", name |-> name, cls |-> cls]
          /\ latest' = [latest EXCEPT ![name] = cls]
          /\ overridden' =
                 IF latest[name] \notin {"", cls}
                 THEN overridden \cup {[name |-> name, cls |-> latest[name]]}
                 ELSE overridden
    /\ nreg' = nreg + 1
    /\ rresult' = RReturn("")
    /\ UNCHANGED <<excluded, mvars, cvars, pvars>>

\* test_match_dtype_unique: a fresh registry gets every built-in class but one
RegisterAllBut ==
    /\ contents = <<>> /\ excluded = ""
    /\ \E cls \in Builtins :
          /\ contents' = register_all(contents, Builtins \ {cls})
          /\ rcall' = [op |-> "register_all_but", cls |-> cls]
          /\ excluded' = cls
    /\ rresult' = RReturn("")
    /\ UNCHANGED <<latest, overridden, nreg, mvars, cvars, pvars>>

\* data_type_registry_fixture.get(name)
Get ==
    /\ \E name \in Names :
          /\ rcall' = [op |-> "get", name |-> name]
          /\ rresult' = get(contents, name)
    /\ UNCHANGED <<contents, latest, overridden, nreg, excluded, mvars, cvars, pvars>>

\* data_type_registry_fixture.match_dtype(dtype)
MatchDtype ==
    /\ \E dtype \in DTypeValues :
          /\ rcall' = [op |-> "match_dtype", dtype |-> dtype]
          /\ rresult' = match_dtype(contents, dtype)
    /\ UNCHANGED <<contents, latest, overridden, nreg, excluded, mvars, cvars, pvars>>

\* data_type_registry_fixture.match_json(data, zarr_format=zarr_format)
MatchJson ==
    /\ \E data \in JsonValues, zarr_format \in {2, 3} :
          /\ rcall' = [op |-> "match_json", data |-> data, zarr_format |-> zarr_format]
          /\ rresult' = match_json(contents, data, zarr_format)
    /\ UNCHANGED <<contents, latest, overridden, nreg, excluded, mvars, cvars, pvars>>

RNext ==
    \/ Register
    \/ RegisterAllBut
    \/ Get
    \/ MatchDtype
    \/ MatchJson

(***************************************************************************)
(* The process-wide registry data_type_registry (zarr.core.dtype) and the  *)
(* discovery of entry points (zarr.registry._collect_entrypoints), as      *)
(* test_registered_dtypes, set_path and test_entrypoint_codec use them.    *)
(* The registry holds contents, the (name, class) entries, and             *)
(* lazy_load_list, the entry points found and not loaded yet.              *)
(***************************************************************************)
\* the number of _collect_entrypoints calls
MaxCollect == 2

\* the entry points of the data type group that are found: the one of
\* package_with_entrypoint when its directory is on sys.path
entry_points(on_path) == IF on_path THEN <<"TestDataType">> ELSE <<>>

\* _collect_entrypoints: the entry points found now are added to lazy_load_list
collect_entrypoints(r, on_path) ==
    [r EXCEPT !.lazy_load_list = @ \o entry_points(on_path)]

\* the classes of a list registered one after the other under their v3 names
RECURSIVE register_each(_, _)
register_each(c, todo) ==
    IF todo = <<>> THEN c
    ELSE register_each(register(c, zarr_v3_name(Head(todo)), Head(todo)), Tail(todo))

\* the classes of a list appended to the entries one after the other
RECURSIVE append_each(_, _)
append_each(c, todo) ==
    IF todo = <<>> THEN c
    ELSE append_each(Append(c, [name |-> zarr_v3_name(Head(todo)), cls |-> Head(todo)]),
                     Tail(todo))

\* lazy_load that adds an entry for each pending entry point without a look
\* at the entries there are
lazy_load_append(r) ==
    [contents |-> append_each(r.contents, r.lazy_load_list), lazy_load_list |-> <<>>]

\* DataTypeRegistry.lazy_load: every pending entry point is loaded and
\* registered, then lazy_load_list is cleared
lazy_load(r) ==
    [contents |-> register_each(r.contents, r.lazy_load_list), lazy_load_list |-> <<>>]

\* the classes a registry knows: registered, or pending in lazy_load_list
Known(r) ==
    {r.contents[i].cls : i \in 1..Len(r.contents)}
        \cup {r.lazy_load_list[i] : i \in 1..Len(r.lazy_load_list)}

\* the registry after import: every class of DTYPE registered, nothing pending
Populated == [contents |-> register_all(<<>>, Builtins), lazy_load_list |-> <<>>]

PInit ==
    /\ data_type_registry = Populated
    /\ sys_path = FALSE
    /\ pcall = [op |-> "none"]
    /\ presult = RNoResult
    /\ ncollect = 0

\* sys.path.append(here)
SysPathAppend ==
    /\ ~sys_path
    /\ sys_path' = TRUE
    /\ pcall' = [op |-> "sys.path.append"]
    /\ presult' = RNoResult
    /\ UNCHANGED <<data_type_registry, ncollect, mvars, rvars, cvars>>

\* sys.path.remove(here)
SysPathRemove ==
    /\ sys_path
    /\ sys_path' = FALSE
    /\ pcall' = [op |-> "sys.path.remove"]
    /\ presult' = RNoResult
    /\ UNCHANGED <<data_type_registry, ncollect, mvars, rvars, cvars>>

\* zarr.registry._collect_entrypoints()
CollectEntrypoints ==
    /\ ncollect < MaxCollect
    /\ data_type_registry' = collect_entrypoints(data_type_registry, sys_path)
    /\ ncollect' = ncollect + 1
    /\ pcall' = [op |-> "_collect_entrypoints"]
    /\ presult' = RNoResult
    /\ UNCHANGED <<sys_path, mvars, rvars, cvars>>

\* registry.lazy_load_list.clear()
LazyLoadListClear ==
    /\ data_type_registry' = [data_type_registry EXCEPT !.lazy_load_list = <<>>]
    /\ pcall' = [op |-> "clear"]
    /\ presult' = RNoResult
    /\ UNCHANGED <<sys_path, ncollect, mvars, rvars, cvars>>

\* data_type_registry.match_dtype(dtype): lazy_load, then the match
ProcessMatchDtype ==
    /\ \E dtype \in DTypeValues :
          /\ pcall' = [op |-> "match_dtype", dtype |-> dtype,
                       known |-> Known(data_type_registry)]
          /\ presult' = match_dtype(lazy_load(data_type_registry).contents, dtype)
    /\ data_type_registry' = lazy_load(data_type_registry)
    /\ UNCHANGED <<sys_path, ncollect, mvars, rvars, cvars>>

\* get_data_type_from_json(data, zarr_format), which is
\* data_type_registry.match_json(data, zarr_format): lazy_load, then the match
GetDataTypeFromJson ==
    /\ \E data \in JsonValues \cup {to_json("TestDataType", 2)}, zarr_format \in {2, 3} :
          /\ pcall' = [op |-> "match_json", data |-> data, zarr_format |-> zarr_format,
                       known |-> Known(data_type_registry),
                       pending |-> data_type_registry.lazy_load_list]
          /\ presult' = match_json(lazy_load(data_type_registry).contents,
                                   data, zarr_format)
    /\ data_type_registry' = lazy_load(data_type_registry)
    /\ UNCHANGED <<sys_path, ncollect, mvars, rvars, cvars>>

\* cls.from_json(data, zarr_format) of a wrapper class
FromJson ==
    /\ \E cls \in Builtins \cup {"TestDataType"},
          data \in JsonValues \cup {to_json("TestDataType", 2)}, zarr_format \in {2, 3} :
          /\ pcall' = [op |-> "from_json", cls |-> cls, data |-> data,
                       zarr_format |-> zarr_format]
          /\ presult' = from_json(cls, data, zarr_format)
    /\ UNCHANGED <<data_type_registry, sys_path, ncollect, mvars, rvars, cvars>>

\* the wrappers and scalars of test_to_json_value_v2 and _v3, and the scalars
\* that are not numbers or not times
ScalarInputs ==
    {[wrapper |-> Bool, value |-> NpBool(TRUE)],
     [wrapper |-> Bool, value |-> NpBool(FALSE)],
     [wrapper |-> Int8, value |-> NpInt8(42)],
     [wrapper |-> Int8, value |-> NpInt8(-128)],
     [wrapper |-> Int32, value |-> NpInt32(42)],
     [wrapper |-> Float64, value |-> NpFloat64(42)],
     [wrapper |-> Float64, value |-> NaN],
     [wrapper |-> Float64, value |-> Infinity],
     [wrapper |-> Complex64, value |-> NpComplex64(42, 1)],
     [wrapper |-> FixedLengthAscii, value |-> NpBytes(<<116, 101, 115, 116>>)],
     [wrapper |-> Wrapper("FixedLengthBytes", "V", 4),
      value |-> NpVoid(<<116, 101, 115, 116>>)],
     [wrapper |-> FixedLengthBytes, value |-> NpVoid(<<0, 255>>)],
     [wrapper |-> Wrapper("FixedLengthBytes", "V", 3), value |-> NpVoid(<<255, 254, 253>>)],
     [wrapper |-> Wrapper("FixedLengthUnicode", "U", 4),
      value |-> NpStr(<<116, 101, 115, 116>>)],
     [wrapper |-> DateTime64, value |-> datetime64_s(2021, 1, 1, 0, 0, 0)],
     [wrapper |-> DateTime64, value |-> datetime64_s(1969, 12, 31, 23, 59, 59)],
     [wrapper |-> DateTime64, value |-> NaT]}

\* what to_json_value or from_json_value returns or raises
VReturn(value) == [status |-> "ok", value |-> value]
VRaise(exc) == [status |-> exc, value |-> FillNone]

\* wrapper.to_json_value(value, zarr_format=zarr_format)
ToJsonValue ==
    /\ \E sc \in ScalarInputs, zarr_format \in {2, 3} :
          /\ pcall' = [op |-> "to_json_value", wrapper |-> sc.wrapper,
                       value |-> sc.value, zarr_format |-> zarr_format]
          /\ presult' = VReturn(to_json_value(sc.wrapper, sc.value))
    /\ UNCHANGED <<data_type_registry, sys_path, ncollect, mvars, rvars, cvars>>

\* wrapper.from_json_value(data, zarr_format=zarr_format) of the JSON value
\* that wrapper.to_json_value(value, zarr_format=zarr_format) just returned
FromJsonValue ==
    /\ pcall.op = "to_json_value"
    /\ pcall' = [op |-> "from_json_value", wrapper |-> pcall.wrapper,
                 data |-> presult.value, zarr_format |-> pcall.zarr_format,
                 value |-> pcall.value]
    /\ presult' = LET r == from_json_value(pcall.wrapper, presult.value)
                  IN  IF r.ok THEN VReturn(r.v) ELSE VRaise("DataTypeValidationError")
    /\ UNCHANGED <<data_type_registry, sys_path, ncollect, mvars, rvars, cvars>>

\* config.get("array.v2_default_compressor") with the defaults in effect
v2_default_compressor ==
    [category \in {"default", "variable-length-string"} |->
        [k |-> "dict", id |-> "zstd", level |-> 0, checksum |-> "False"]]

\* config.get("array.v2_default_filters") with the defaults in effect
v2_default_filters ==
    [category \in {"default", "variable-length-string"} |->
        IF category = "default" THEN FiltersNone
        ELSE FiltersList(<<[k |-> "dict", id |-> "vlen-utf8"]>>)]

VariableLengthString == Wrapper("VariableLengthString", "T", 0)

\* categorize_data_type: the category of a wrapper
categorize_data_type(dtype) ==
    IF dtype.cls = "VariableLengthString" THEN "variable-length-string" ELSE "default"

\* what the attribute kind of a wrapper can give: the kind of its numpy
\* data type, or an AttributeError where the class has no such attribute
wrapper_kind(dtype) == {dtype.kind, "AttributeError"}

\* dict.get(key, default)
dict_get(d, key, default) == IF key \in DOMAIN d THEN d[key] ELSE default

\* _default_compressor(dtype), with kind what dtype.kind gave
_default_compressor(dtype, kind) ==
    IF kind = "AttributeError" THEN VRaise("AttributeError")
    ELSE VReturn(dict_get(v2_default_compressor, kind, PyNone))

\* _default_filters(dtype), with kind what dtype.kind gave
_default_filters(dtype, kind) ==
    IF kind = "AttributeError" THEN VRaise("AttributeError")
    ELSE VReturn(dict_get(v2_default_filters, kind, FiltersNone))

\* the wrappers the default codecs are looked up for
CodecDTypes == {Int32, Float64, FixedLengthUnicode, FixedLengthBytes, VariableLengthString}

\* _default_compressor(dtype)
DefaultCompressor ==
    /\ \E dtype \in CodecDTypes : \E kind \in wrapper_kind(dtype) :
          /\ pcall' = [op |-> "_default_compressor", dtype |-> dtype]
          /\ presult' = _default_compressor(dtype, kind)
    /\ UNCHANGED <<data_type_registry, sys_path, ncollect, mvars, rvars, cvars>>

\* _default_filters(dtype)
DefaultFilters ==
    /\ \E dtype \in CodecDTypes : \E kind \in wrapper_kind(dtype) :
          /\ pcall' = [op |-> "_default_filters", dtype |-> dtype]
          /\ presult' = _default_filters(dtype, kind)
    /\ UNCHANGED <<data_type_registry, sys_path, ncollect, mvars, rvars, cvars>>

PNext ==
    \/ DefaultCompressor
    \/ DefaultFilters
    \/ ToJsonValue
    \/ FromJsonValue
    \/ SysPathAppend
    \/ SysPathRemove
    \/ CollectEntrypoints
    \/ LazyLoadListClear
    \/ ProcessMatchDtype
    \/ GetDataTypeFromJson
    \/ FromJson

(***************************************************************************)
(* The configuration store: zarr.core.config.Config, a donfig Config.  The *)
(* content is the built-in defaults, updated with the file layer, then     *)
(* with the environment layer, then by the set calls.                      *)
(***************************************************************************)
Keys == {"buffer", "ndbuffer", "json_indent"}

\* a key without a value in a layer or in the content
Absent == "absent"

\* the defaults given to Config("zarr", defaults=[...])
Defaults ==
    [k \in Keys |->
        IF k = "buffer" THEN "zarr.core.buffer.cpu.Buffer"
        ELSE IF k = "ndbuffer" THEN "zarr.core.buffer.cpu.NDBuffer"
        ELSE "2"]

\* the argument of the set call of enable_gpu, in the order of the dict
EnableGpuArg ==
    <<[key |-> "buffer", value |-> "zarr.core.buffer.gpu.Buffer"],
      [key |-> "ndbuffer", value |-> "zarr.core.buffer.gpu.NDBuffer"]>>

\* the implementation family of a buffer or ndbuffer identifier
Family(id) ==
    IF id \in {"zarr.core.buffer.gpu.Buffer", "zarr.core.buffer.gpu.NDBuffer"} THEN "gpu"
    ELSE IF id \in {"zarr.core.buffer.cpu.Buffer", "zarr.core.buffer.cpu.NDBuffer"}
    THEN "cpu"
    ELSE "none"

\* donfig update(old, new, priority="new"): the values of new replace those of old
update_new(old, new) == [k \in Keys |-> IF new[k] # Absent THEN new[k] ELSE old[k]]

\* donfig update(old, new, priority="old"): the values of new fill the gaps of old
update_old(old, new) == [k \in Keys |-> IF old[k] # Absent THEN old[k] ELSE new[k]]

\* Config.clear: self.config.clear()
clear(c) == [k \in Keys |-> Absent]

\* Config.collect: the YAML files merged, then the environment over them
collect(f, e) == update_new(f, e)

\* Config.refresh: clear, the defaults, then what collect finds now
refresh(c, f, e) == update_new(update_old(clear(c), Defaults), collect(f, e))

\* reset that refreshes without clearing first
reset_keep(c, f, e) == update_new(update_old(c, Defaults), collect(f, e))

\* Config.reset: self.clear(); self.refresh()
reset(c, f, e) == refresh(clear(c), f, e)

\* one assignment of a set call: config[key] = value
assign(c, pair) == [c EXCEPT ![pair.key] = pair.value]

\* a set call that assigns all its pairs in one step
RECURSIVE assign_all(_, _)
assign_all(c, pairs) ==
    IF pairs = <<>> THEN c ELSE assign_all(assign(c, Head(pairs)), Tail(pairs))

\* the layers that may be present when the process starts
NoLayer == [k \in Keys |-> Absent]
FileLayers == {NoLayer, [NoLayer EXCEPT !["json_indent"] = "0"]}
EnvInputs ==
    {[NoLayer EXCEPT !["ndbuffer"] = n, !["json_indent"] = j] :
        n \in {Absent, "zarr.core.buffer.gpu.NDBuffer"}, j \in {Absent, "4"}}

\* the arguments of config.set the callers use
SetInputs ==
    {<<[key |-> "json_indent", value |-> "4"]>>,
     <<[key |-> "buffer", value |-> "zarr.core.buffer.cpu.Buffer"],
       [key |-> "ndbuffer", value |-> "zarr.core.buffer.cpu.NDBuffer"]>>,
     <<[key |-> "ndbuffer", value |-> "zarr.core.buffer.gpu.NDBuffer"],
       [key |-> "json_indent", value |-> "0"]>>}

\* what a reader has of the content: the buffer and ndbuffer identifiers
View(c) == [buffer |-> c["buffer"], ndbuffer |-> c["ndbuffer"]]

\* config = Config("zarr", defaults=[...]): __init__ ends with self.refresh()
CInit ==
    /\ environ \in EnvInputs
    /\ files \in FileLayers
    /\ config = refresh(NoLayer, files, environ)
    /\ ccall = [op |-> "none"]
    /\ pending = <<>>
    /\ before = config
    /\ seen = [during |-> FALSE, op |-> "none", view |-> View(config),
               pre |-> View(config), post |-> View(config)]

\* config.set(arg): ConfigSet.__init__ takes config_lock and assigns the pairs
\* of arg one after the other; this is the step that takes the lock
SetBegin ==
    /\ pending = <<>>
    /\ \E arg \in SetInputs :
          /\ pending' = arg
          /\ ccall' = [op |-> "set", arg |-> arg]
    /\ before' = config
    /\ UNCHANGED <<config, environ, files, seen, mvars, rvars, pvars>>

\* config.enable_gpu(): self.set({"buffer": ..., "ndbuffer": ...})
EnableGpu ==
    /\ pending = <<>>
    /\ pending' = EnableGpuArg
    /\ ccall' = [op |-> "enable_gpu", arg |-> EnableGpuArg]
    /\ before' = config
    /\ UNCHANGED <<config, environ, files, seen, mvars, rvars, pvars>>

\* the next assignment of the set in progress; after the last one the lock
\* is released
SetAssign ==
    /\ pending # <<>>
    /\ config' = assign(config, Head(pending))
    /\ pending' = Tail(pending)
    /\ UNCHANGED <<environ, files, ccall, before, seen, mvars, rvars, pvars>>

\* config.reset()
Reset ==
    /\ pending = <<>>
    /\ config' = reset(config, files, environ)
    /\ ccall' = [op |-> "reset", was |-> config]
    /\ UNCHANGED <<environ, files, pending, before, seen, mvars, rvars, pvars>>

\* a reader thread: config.get("buffer") and config.get("ndbuffer"); get takes
\* no lock, so the reads may fall between two assignments of a set
ReaderGet ==
    /\ seen' = [during |-> pending # <<>>,
                op |-> ccall.op,
                view |-> View(config),
                pre |-> View(before),
                post |-> View(assign_all(config, pending))]
    /\ UNCHANGED <<config, environ, files, ccall, pending, before, mvars, rvars, pvars>>

CNext ==
    \/ SetBegin
    \/ EnableGpu
    \/ SetAssign
    \/ Reset
    \/ ReaderGet

(***************************************************************************)
(* The specifications.                                                     *)
(***************************************************************************)
vars == <<mvars, rvars, cvars, pvars>>

\* the configuration store of a process without file and environment layers
CQuiet ==
    /\ environ = NoLayer
    /\ files = NoLayer
    /\ config = refresh(NoLayer, files, environ)
    /\ ccall = [op |-> "none"]
    /\ pending = <<>>
    /\ before = config
    /\ seen = [during |-> FALSE, op |-> "none", view |-> View(config),
               pre |-> View(config), post |-> View(config)]

Init == MInit /\ RInit /\ CQuiet /\ PInit

ConfigInit == MInit /\ RInit /\ CInit /\ PInit

\* the configuration store
SpecConfig == ConfigInit /\ [][CNext]_vars

Next == MNext

\* the metadata document
Spec == Init /\ [][Next]_vars

\* the data type registry
SpecRegistry == Init /\ [][RNext]_vars

\* the process-wide data type registry and the discovery of entry points
SpecProcess == Init /\ [][PNext]_vars


(***************************************************************************)
(* Properties of the metadata document.                                    *)
(***************************************************************************)
\* the documents of a state: the one the caller holds, the one just returned
StateDocs ==
    {m[i] : i \in 1..Len(m)} \cup {result.doc[i] : i \in 1..Len(result.doc)}

\* every argument of a constructor call is valid taken by itself
IndividuallyValid(a) ==
    /\ parse_shapelike(a.shape).ok
    /\ parse_shapelike(a.chunks).ok
    /\ a.dtype.k = "wrapper"
    /\ parse_compressor(a.compressor).ok
    /\ parse_indexing_order(a.order).ok
    /\ parse_separator(a.dimension_separator).ok
    /\ parse_filters(a.filters).ok
    /\ parse_fill_value(a.fill_value, a.dtype).ok
    /\ parse_attributes(a.attributes).ok

\* the number of dimensions a shape-like input stands for
NDim(shapelike) == IF shapelike.k = "int" THEN 1 ELSE Len(shapelike.s)

\* C1: a constructor call whose shape and chunks have different lengths, the
\* arguments being valid one by one, raises the ValueError of parse_metadata,
\* which names the two lengths, and no document is produced.
C1_MismatchAlwaysFails ==
    (/\ call.op = "__init__"
     /\ IndividuallyValid(call.args)
     /\ NDim(call.args.shape) # NDim(call.args.chunks))
    => /\ result.status = "ValueError"
       /\ result.err = "shape_mismatch"
       /\ result.l_shape = NDim(call.args.shape)
       /\ result.l_chunks = NDim(call.args.chunks)
       /\ result.doc = <<>>
       /\ m = <<>>

C1_Witness ==
    /\ call.op = "__init__"
    /\ IndividuallyValid(call.args)
    /\ NDim(call.args.shape) = 2
    /\ NDim(call.args.chunks) = 1
    /\ result.err = "shape_mismatch"

\* C2: in every document that a constructor call, from_dict, update_shape or
\* update_attributes returned, shape and chunks have the same length.
C2_ShapeChunksSameLength ==
    \A d \in StateDocs : Len(d.shape) = Len(d.chunks)

\* update_shape was called with a shape of another length than chunks
C2_Witness ==
    /\ call.op = "update_shape"
    /\ parse_shapelike(call.args).ok
    /\ NDim(call.args) # Len(m[1].chunks)
    /\ result.doc = <<>>

C4_FiltersNoneOrNonEmpty ==
    /\ \A d \in StateDocs :
          \/ d.filters = FiltersNone
          \/ /\ d.filters.k = "tuple"
             /\ Len(d.filters.items) > 0
             /\ \A i \in 1..Len(d.filters.items) : d.filters.items[i].k = "codec"
    /\ (/\ call.op \in {"__init__", "from_dict"}
        /\ call.args.filters = FiltersList(<<>>)
        /\ result.status = "ok")
       => result.doc[1].filters = FiltersNone
    /\ call.op = "to_dict"
       => /\ result.dict[1].filters.k \in {"none", "list"}
          /\ result.dict[1].filters.k = "list" => Len(result.dict[1].filters.items) > 0
          /\ result.dict[1].filters.k = "none" <=> m[1].filters = FiltersNone

\* the constructor was given an empty list of filters and returned a document
C4_Witness ==
    /\ call.op = "__init__"
    /\ call.args.filters = FiltersList(<<>>)
    /\ result.status = "ok"
    /\ result.doc[1].filters = FiltersNone

\* C5 as stated: whenever an empty list of filters is normalized to None, by
\* the constructor or by from_dict, a warning is emitted.
C5_WarnsWheneverNormalized ==
    (/\ call.op \in {"__init__", "from_dict"}
     /\ call.args.filters = FiltersList(<<>>)
     /\ result.status = "ok"
     /\ result.doc[1].filters = FiltersNone)
    => warnings # <<>>

\* C5, amended: from_dict emits one UserWarning for an empty list of filters
\* in the stored document, and the call still returns a document; the
\* constructor, and every other call, normalizes without a warning.
C5_WarnsInFromDictOnly ==
    /\ (call.op = "from_dict" /\ result.status = "ok")
       => /\ call.args.filters = FiltersList(<<>>) => warnings = <<UserWarning>>
          /\ call.args.filters # FiltersList(<<>>) => warnings = <<>>
    /\ call.op # "from_dict" => warnings = <<>>
    /\ warnings # <<>> => /\ warnings = <<UserWarning>>
                          /\ call.args.filters = FiltersList(<<>>)

\* from_dict was given an empty list of filters, warned and returned a document
C5_Witness ==
    /\ call.op = "from_dict"
    /\ call.args.filters = FiltersList(<<>>)
    /\ result.status = "ok"
    /\ result.doc[1].filters = FiltersNone
    /\ warnings = <<UserWarning>>

\* the pieces of a str between the occurrences of a separator (str.split)
RECURSIVE split(_, _)
split(s, sep) ==
    IF \A i \in 1..Len(s) : s[i] # sep THEN <<s>>
    ELSE LET i == CHOOSE j \in 1..Len(s) :
                      s[j] = sep /\ \A h \in 1..(j - 1) : s[h] # sep
         IN  <<SubSeq(s, 1, i - 1)>> \o split(SubSeq(s, i + 1, Len(s)), sep)

\* the number a str of decimal digits denotes, -1 when it is no such str
RECURSIVE decimal(_)
decimal(s) ==
    IF s = <<>> \/ \E i \in 1..Len(s) : \A d \in 1..10 : Digits[d] # s[i] THEN -1
    ELSE LET last == (CHOOSE d \in 1..10 : Digits[d] = s[Len(s)]) - 1
         IN  IF Len(s) = 1 THEN last
             ELSE decimal(SubSeq(s, 1, Len(s) - 1)) * 10 + last

\* C6: the chunk key of the empty tuple is "0"; the key of another tuple is
\* its coordinates in decimal, in order, with the document's separator ("."
\* or "/") between them; tuples of the same length have different keys.
C6_ChunkKey ==
    call.op = "encode_chunk_key"
    => LET sep == m[1].dimension_separator
           parts == split(result.key, sep)
       IN  /\ sep \in {".", "/"}
           /\ call.args = <<>> => result.key = <<"0">>
           /\ call.args # <<>>
              => /\ Len(parts) = Len(call.args)
                 /\ \A i \in 1..Len(parts) :
                       /\ decimal(parts[i]) = call.args[i]
                       /\ Len(parts[i]) = 1 \/ parts[i][1] # "0"
           /\ (call.args = <<1, MaxCoord>> /\ MaxCoord = 11 /\ sep = ".")
              => result.key = <<"1", ".", "1", "1">>
           /\ \A other \in CoordInputs :
                 (Len(other) = Len(call.args) /\ other # call.args)
                 => encode_chunk_key(m[1], other) # result.key

\* the key of a tuple whose digits alone do not tell it from another tuple
C6_Witness ==
    /\ call.op = "encode_chunk_key"
    /\ call.args = <<1, MaxCoord>>
    /\ m[1].dimension_separator = "/"
    /\ result.key = <<"1", "/">> \o str(MaxCoord)

\* a == b of two fill values in Python: numbers are equal by value whatever
\* their type (1 == np.int32(1)), a str equals a np.str_ of the same
\* characters, None equals None only; an array equals no scalar
py_eq(a, b) ==
    LET class(x) ==
            IF x.k \in {"int", "int8", "int32"} THEN "integer"
            ELSE IF x.k \in {"float", "float64"} THEN "float"
            ELSE IF x.k \in {"complex", "complex64"} THEN "complex"
            ELSE IF x.k \in {"bool", "bool_"} THEN "boolean"
            ELSE IF x.k \in {"str", "str_"} THEN "str"
            ELSE IF x.k \in {"bytes", "bytes_"} THEN "bytes"
            ELSE x.k
    IN  /\ class(a) = class(b) /\ a.n = b.n /\ a.s = b.s
        \* a NaN and a not-a-time equal nothing, themselves included
        /\ a \notin {NaN, NaT}

\* C11: from_dict of the dict that to_dict returned for a document succeeds
\* and returns a document equal to that document field by field, whatever
\* the data type and the fill value of the document.
C11_FromDictInvertsToDict ==
    (call.op = "from_dict" /\ m # <<>>)
    => /\ result.status = "ok"
       /\ result.doc # <<>>
       /\ LET d == result.doc[1]
          IN  /\ d.shape = m[1].shape
              /\ d.chunks = m[1].chunks
              /\ d.dtype = m[1].dtype
              /\ py_eq(d.fill_value, m[1].fill_value)
              /\ d.order = m[1].order
              /\ d.dimension_separator = m[1].dimension_separator
              /\ d.compressor = m[1].compressor
              /\ d.filters = m[1].filters
              /\ d.attributes = m[1].attributes
              /\ d.zarr_format = m[1].zarr_format


(***************************************************************************)
(* Properties of the data type registry.                                   *)
(***************************************************************************)
\* the classes the registry holds
Registered == {contents[i].cls : i \in 1..Len(contents)}

\* C7: get(name) returns the class of the latest register(name, ...) call;
\* register never fails, also for a name that has an entry; match_dtype
\* returns an instance of a class that is registered now, so after an
\* override an instance of the overriding class and not of the overridden one.
C7_LastRegisterWins ==
    /\ rcall.op = "register"
       => /\ rresult.status = "ok"
          /\ get(contents, rcall.name) = RReturn(rcall.cls)
    /\ (rcall.op = "get" /\ latest[rcall.name] # "")
       => rresult = RReturn(latest[rcall.name])
    /\ (rcall.op = "match_dtype" /\ excluded = "" /\ rresult.status = "ok")
       => /\ rresult.cls \in {latest[n] : n \in Names}
          /\ check_dtype(rresult.cls, rcall.dtype)
          /\ \A e \in overridden :
                (\A n \in Names : latest[n] # e.cls) => rresult.cls # e.cls

\* Bool was registered, NewBool was registered under the same name, and
\* match_dtype of the bool dtype returned a NewBool
C7_Witness ==
    /\ [name |-> "bool", cls |-> "Bool"] \in overridden
    /\ latest["bool"] = "NewBool"
    /\ rcall.op = "match_dtype"
    /\ rcall.dtype = to_dtype("Bool")
    /\ rresult = RReturn("NewBool")

\* C8: get of a name that was never registered raises KeyError; match_dtype
\* and match_json raise a ValueError that names the dtype or the JSON when no
\* registered class matches; in a registry of all built-in classes but one,
\* the dtype and both JSON forms of the class left out match nothing.
C8_LookupsFailClosed ==
    /\ (rcall.op = "get" /\ excluded = "" /\ latest[rcall.name] = "")
       => rresult = RRaise("KeyError", rcall.name)
    /\ (rcall.op = "match_dtype"
        /\ \A cls \in Registered : ~check_dtype(cls, rcall.dtype))
       => rresult = RRaise("ValueError", rcall.dtype)
    /\ (rcall.op = "match_json"
        /\ \A cls \in Registered : ~check_json(cls, rcall.data, rcall.zarr_format))
       => rresult = RRaise("ValueError", rcall.data)
    /\ (rcall.op = "match_dtype" /\ excluded # "" /\ rcall.dtype = to_dtype(excluded))
       => /\ rresult.status = "ValueError"
          /\ rresult.named = <<to_dtype(excluded)>>
    /\ (rcall.op = "match_json" /\ excluded # ""
        /\ rcall.data = to_json(excluded, rcall.zarr_format))
       => /\ rresult.status = "ValueError"
          /\ rresult.named = <<rcall.data>>

\* FixedLengthBytes was left out of a registry that holds Structured, the
\* other wrapper of void dtypes, and its dtype matched nothing
C8_Witness ==
    /\ excluded = "FixedLengthBytes"
    /\ "Structured" \in Registered
    /\ Len(contents) = Cardinality(Builtins) - 1
    /\ rcall.op = "match_dtype"
    /\ rcall.dtype = to_dtype("FixedLengthBytes")
    /\ rresult.status = "ValueError"

ExampleEncodings ==
    /\ (pcall.wrapper.kind \in {"S", "V"} /\ pcall.value.s = <<116, 101, 115, 116>>)
       => presult.value = FillStr(<<100, 71, 86, 122, 100, 65, 61, 61>>)
    /\ (pcall.wrapper = DateTime64 /\ pcall.value = datetime64_s(2021, 1, 1, 0, 0, 0))
       => presult.value = FillInt(1609459200)
    /\ (pcall.wrapper = Complex64 /\ pcall.value = NpComplex64(42, 1))
       => presult.value = FillTuple(<<42, 1>>)

C14_DiscoveryIdempotent ==
    /\ [](LET loaded == lazy_load(data_type_registry).contents
          IN  /\ \E on_path \in BOOLEAN :
                    loaded = lazy_load(collect_entrypoints(Populated, on_path)).contents
              /\ \A i, j \in 1..Len(loaded) :
                    (loaded[i].name = loaded[j].name \/ loaded[i].cls = loaded[j].cls)
                        => i = j
              /\ (/\ pcall.op = "match_json"
                  /\ "TestDataType" \in pcall.known
                  /\ pcall.data = to_json("TestDataType", pcall.zarr_format))
                 => presult = RReturn("TestDataType"))
    /\ [][Known(data_type_registry') # Known(data_type_registry)
            => \/ Known(data_type_registry) \subseteq Known(data_type_registry')
               \/ pcall'.op = "clear"]_vars

\* the entry point was collected twice before the first lookup, which found
\* TestDataType from its format 3 JSON and left one entry for it
C14_Witness ==
    /\ pcall.op = "match_json"
    /\ pcall.zarr_format = 3
    /\ pcall.pending = <<"TestDataType", "TestDataType">>
    /\ pcall.data = to_json("TestDataType", 3)
    /\ presult = RReturn("TestDataType")
    /\ Len(data_type_registry.contents) = Len(Populated.contents) + 1

\* C15: from_dict of a mapping with keys outside the expected ones returns or
\* raises what it does for the mapping without them; when that mapping is a
\* valid document the call succeeds and the document has the dtype and the
\* chunks of the mapping; the caller's mapping is after the call what it was.
C15_FromDictIgnoresExtraKeys ==
    /\ (call.op = "from_dict" /\ ~(call.args.keys \subseteq expected))
       => LET d == [call.args EXCEPT !.keys = @ \cap expected]
          IN  /\ result = from_dict(d).result
              /\ from_dict(d).result.status = "ok"
                 => /\ result.status = "ok"
                    /\ result.doc[1].dtype = get_data_type_from_numpy(d.dtype).v
                    /\ result.doc[1].chunks = parse_shapelike(d.chunks).v
    /\ call.op = "from_dict" => call.data = call.args

\* a mapping with two extra keys was read into a document
C15_Witness ==
    /\ call.op = "from_dict"
    /\ call.args.keys \ expected = {"foo", "zarr_consolidated_format"}
    /\ result.status = "ok"
    /\ result.doc[1].dtype = FixedLengthUnicode
    /\ call.data = call.args

\* the constructor was given a shape and chunks that both parse and differ in
\* length
LengthsDiffer ==
    /\ call.op = "__init__"
    /\ parse_shapelike(call.args.shape).ok /\ parse_shapelike(call.args.chunks).ok
    /\ Len(parse_shapelike(call.args.chunks).v) # Len(parse_shapelike(call.args.shape).v)

\* C16 as stated: when the lengths of shape and chunks differ the constructor
\* raises the shape-mismatch error, whatever else is wrong in the same call.
C16_ShapeMismatchFirst ==
    LengthsDiffer
        => result = RaiseMismatch(Len(parse_shapelike(call.args.chunks).v),
                                  Len(parse_shapelike(call.args.shape).v))

\* C16, amended: the lengths are compared last. When the lengths differ and
\* another input is invalid, the constructor raises what it raises for the same
\* arguments with chunks of the length of shape; it raises the shape-mismatch
\* error exactly when every other input is valid.
C16_ShapeMismatchLast ==
    LengthsDiffer
        => LET agreeing == ArrayV2Metadata([call.args EXCEPT !.chunks = call.args.shape])
           IN  IF agreeing.status = "ok"
               THEN result = RaiseMismatch(Len(parse_shapelike(call.args.chunks).v),
                                           Len(parse_shapelike(call.args.shape).v))
               ELSE result = agreeing /\ result.err # "shape_mismatch"

\* shape and chunks differed in length, the dtype was no wrapper, and the
\* constructor raised the TypeError of the dtype
C16_Witness ==
    /\ LengthsDiffer
    /\ call.args.dtype.k # "wrapper"
    /\ result = Raise("TypeError", "dtype")

\* the constructor was called with arguments that are valid when the fill
\* value is left out
ValidButFill ==
    /\ call.op = "__init__"
    /\ ArrayV2Metadata([call.args EXCEPT !.fill_value = FillNone]).status = "ok"

\* C17 as stated: for a text dtype every present fill value that is not a
\* string, 0, 0.0 and False included, is rejected with the fill-value error;
\* None stays None for every dtype; a numeric zero for a numeric dtype becomes
\* the zero scalar of the dtype.
C17_TextRequiresString ==
    ValidButFill
        => /\ (/\ call.args.dtype.kind = "U"
               /\ call.args.fill_value.k \notin {"none", "str", "str_"})
              => result = Raise("ValueError", "fill_value")
           /\ call.args.fill_value = FillNone
              => result.status = "ok" /\ result.doc[1].fill_value = FillNone
           /\ (call.args.dtype.kind \in {"i", "c"} /\ is_zero(call.args.fill_value))
              => /\ result.status = "ok"
                 /\ result.doc[1].fill_value =
                        IF call.args.dtype.kind = "i" THEN NpInt32(0) ELSE NpComplex64(0, 0)

\* C17, amended: for a text dtype a present fill value that is not a string and
\* does not equal 0 is rejected with the fill-value error, and one that equals
\* 0 (0, 0.0, False) is stored as the empty text scalar; None stays None for
\* every dtype; a numeric zero for a numeric dtype becomes the zero scalar of
\* the dtype.
C17_TextRequiresStringOrZero ==
    ValidButFill
        => /\ (/\ call.args.dtype.kind = "U"
               /\ call.args.fill_value.k \notin {"none", "str", "str_"})
              => IF call.args.fill_value \in {FillInt(0), PyFloat(0), PyBool(FALSE)}
                 THEN result.status = "ok" /\ result.doc[1].fill_value = NpStr(<<>>)
                 ELSE result = Raise("ValueError", "fill_value")
           /\ call.args.fill_value = FillNone
              => result.status = "ok" /\ result.doc[1].fill_value = FillNone
           /\ (call.args.dtype.kind \in {"i", "c"} /\ is_zero(call.args.fill_value))
              => /\ result.status = "ok"
                 /\ result.doc[1].fill_value =
                        IF call.args.dtype.kind = "i" THEN NpInt32(0) ELSE NpComplex64(0, 0)

\* a text document was constructed with the fill value False
C17_Witness ==
    /\ call.op = "__init__"
    /\ call.args.dtype = FixedLengthUnicode
    /\ call.args.fill_value = PyBool(FALSE)
    /\ result.status = "ok"
    /\ result.doc[1].fill_value = NpStr(<<>>)

\* C18: with the built-in defaults in effect the default compressor of a data
\* type is the configured entry of its category (zstd, level 0, checksum
\* False) and never None, and its default filters are the entry of its
\* category: None for an ordinary data type, [vlen-utf8] for a variable-length
\* string.
C18_DefaultsByCategory ==
    /\ pcall.op = "_default_compressor"
       => /\ presult = VReturn(v2_default_compressor[categorize_data_type(pcall.dtype)])
          /\ presult.value = [k |-> "dict", id |-> "zstd", level |-> 0, checksum |-> "False"]
    /\ pcall.op = "_default_filters"
       => /\ presult = VReturn(v2_default_filters[categorize_data_type(pcall.dtype)])
          /\ pcall.dtype = VariableLengthString
             => presult.value = FiltersList(<<[k |-> "dict", id |-> "vlen-utf8"]>>)
          /\ pcall.dtype # VariableLengthString => presult.value = FiltersNone

\* the calls on a document the caller holds
ReceiverCalls ==
    {"update_shape", "update_attributes", "to_dict", "to_buffer_dict",
     "get_chunk_spec", "encode_chunk_key"}

\* C19: a document that update_shape or update_attributes returns has, in
\* every field but the replaced one, the value of the receiver, and is another
\* document when the replaced value is another; no call of update_shape,
\* update_attributes, to_dict, to_buffer_dict, get_chunk_spec or
\* encode_chunk_key changes a field of the receiver.
C19_DerivedCopiesAreFunctional ==
    /\ []((call.op \in {"update_shape", "update_attributes"} /\ result.status = "ok")
          => LET r == result.doc[1]
                 self == m[1]
                 replaced == IF call.op = "update_shape" THEN "shape" ELSE "attributes"
             IN  /\ DOMAIN r = DOMAIN self
                 /\ \A f \in DOMAIN self \ {replaced} : r[f] = self[f]
                 /\ call.op = "update_shape" => r.shape = parse_shapelike(call.args).v
                 /\ call.op = "update_attributes"
                    => r.attributes = parse_attributes(call.args).v)
    /\ [][call'.op \in ReceiverCalls => m' = m]_vars

\* update_shape returned a document with another shape than that of the
\* receiver, which has a compressor, filters and attributes
C19_Witness ==
    /\ call.op = "update_shape"
    /\ result.status = "ok"
    /\ result.doc[1].shape # m[1].shape
    /\ m[1].compressor # PyNone
    /\ m[1].filters # FiltersNone
    /\ m[1].attributes = AttrsDict({"a"})
    /\ result.doc[1].compressor = m[1].compressor


(***************************************************************************)
(* Properties of the configuration store.                                  *)
(***************************************************************************)
\* C9 as stated: whatever file or environment layers are present, after
\* reset the content is exactly the built-in defaults.
C9_ResetRestoresDefaults ==
    ccall.op = "reset" => config = Defaults

\* C9, amended: reset discards what set and enable_gpu assigned and collects
\* the file and environment layers again: under each key the content is the
\* environment's value, else the files' value, else the default; it is
\* exactly the defaults when neither layer holds a value.
C9_ResetRecollectsLayers ==
    ccall.op = "reset"
    => /\ \A k \in Keys :
             config[k] = IF environ[k] # Absent THEN environ[k]
                         ELSE IF files[k] # Absent THEN files[k]
                         ELSE Defaults[k]
       /\ (environ = NoLayer /\ files = NoLayer) => config = Defaults

\* reset after enable_gpu, with an environment layer: the gpu identifiers
\* are gone, the value of the environment is there again
C9_Witness ==
    /\ ccall.op = "reset"
    /\ ccall.was["buffer"] = "zarr.core.buffer.gpu.Buffer"
    /\ config["buffer"] = "zarr.core.buffer.cpu.Buffer"
    /\ environ["json_indent"] = "4"
    /\ ccall.was["json_indent"] = "0"
    /\ config["json_indent"] = "4"

\* C10: a reader that reads while a set of several keys is in progress sees
\* the content from before the set or the content after it; during
\* enable_gpu it never sees one identifier of the gpu family together with
\* one of the cpu family.
C10_SetAppearsAtomic ==
    /\ seen.during => seen.view = seen.pre \/ seen.view = seen.post
    /\ (/\ seen.during
        /\ seen.op = "enable_gpu"
        /\ Family(seen.pre.buffer) = Family(seen.pre.ndbuffer))
       => Family(seen.view.buffer) = Family(seen.view.ndbuffer)

=============================================================================
